---- MODULE Spec2Model ----
(***************************************************************************)
(* Model of the extension compatibility layer of the netbird browser      *)
(* shell: the main-process ExtensionManager (registry, persisted           *)
(* configuration, per-extension storage, custom-scheme file resolver,     *)
(* popup windows), the renderer-side ExtensionManager (content-script     *)
(* injection) and the IPC handlers of main.js that connect them.          *)
(***************************************************************************)
EXTENDS Integers, Sequences, FiniteSets, TLC

(***************************************************************************)
(* Bounds of the model.                                                    *)
(***************************************************************************)
MaxWindows == 2

MaxRelLen == 3

MaxRenderer == 2

\* entries in a persisted configuration that is restored
MaxConfig == 2

\* arguments in a call of chrome.storage.local.get or set
MaxArgs == 2

\* characters after the scheme in a match pattern and in a URL
MaxPattern == 2
MaxUrl == 2
\* Electron calls that throw during one teardown
MaxFaults == 2

(***************************************************************************)
(* Generic helpers.                                                        *)
(***************************************************************************)
Range(s) == {s[i] : i \in 1..Len(s)}

RECURSIVE SelectSeqBy(_, _)
SelectSeqBy(s, keep) ==
    IF s = <<>> THEN <<>>
    ELSE IF Head(s) \in keep THEN <<Head(s)>> \o SelectSeqBy(Tail(s), keep)
         ELSE SelectSeqBy(Tail(s), keep)

StartsWith(s, prefix) ==
    /\ Len(prefix) <= Len(s)
    /\ SubSeq(s, 1, Len(prefix)) = prefix

Includes(s, part) ==
    \E i \in 0..(Len(s) - Len(part)) : SubSeq(s, i + 1, i + Len(part)) = part

(***************************************************************************)
(* Strings are sequences of one-character strings, so that the string     *)
(* conversions of the code are computed and not assumed.                   *)
(***************************************************************************)
LowerCase(c) ==
    CASE c = "A" -> "a"
      [] c = "B" -> "b"
      [] c = "C" -> "c"
      [] OTHER -> c

AlphaNum == {"a", "b", "c", "0", "1"}

\* generateExtensionId: name.toLowerCase().replace(/[^a-z0-9]/g, '')
generateExtensionId(name) ==
    SelectSeqBy([i \in 1..Len(name) |-> LowerCase(name[i])], AlphaNum)

\* `chrome-extension-${extension.id}`
ExtensionScheme(id) == <<"chrome-extension-">> \o id

\* one file for every extension
StoreNameShared(id) == <<"extension_storage">>

\* name of the electron-store file of an extension: `extension_${id}_storage`
StoreName(id) == <<"extension_">> \o id \o <<"_storage">>

(***************************************************************************)
(* The disk: extension directories and their manifest.json.  A field that *)
(* the manifest does not declare is the empty sequence.                    *)
(***************************************************************************)
NoManifest ==
    [dirExists |-> TRUE, hasManifest |-> FALSE, parses |-> FALSE,
     name |-> <<>>, version |-> <<>>,
     browser_action_popup |-> <<>>, action_popup |-> <<>>,
     popupFileExists |-> FALSE, content_scripts |-> <<>>]

UrlE == <<"h", ":", "/", "/", "e", ".", "c", "/", "x">>

UrlO == <<"h", ":", "/", "/", "o", ".", "c", "/">>

PatE == <<"*", ":", "/", "/", "e", ".", "c", "/", "*">>

PatSub == <<"o", ".", "c">>

UrlN == <<"h", ":", "/", "/", "n">>

SegX == <<"x">>

SegAb == <<"a", "b">>

SegAbc == <<"a", "b", "c">>

SegN == <<"n">>

SegF == <<"f">>

SegJ == <<"j">>

SegK == <<"k">>

SegS == <<"s">>

SegUp == <<".", ".">>

\* one entry of content_scripts; hasMatches and hasJs tell a declared list
\* from an absent one
Block(matches, css, js) ==
    [matches |-> matches, css |-> css, js |-> js, hasMatches |-> TRUE,
     hasJs |-> js # <<>>]

Disk ==
    [p \in {"p1", "p2", "p3", "p4", "p5", "p6", "p7", "p8", "p9", "p10"} |->
      CASE p = "p1" ->
             [NoManifest EXCEPT !.hasManifest = TRUE, !.parses = TRUE,
                !.name = <<"A", "b">>, !.version = <<"1">>,
                !.browser_action_popup = <<"pop.html">>,
                !.popupFileExists = TRUE,
                !.content_scripts =
                    << Block(<<PatE>>, << <<SegF>> >>, << <<SegJ>>, <<SegK>> >>) >>]
        [] p = "p2" ->
             [NoManifest EXCEPT !.hasManifest = TRUE, !.parses = TRUE,
                !.name = <<"a", "-", "b">>, !.version = <<"2">>,
                !.action_popup = <<"ui.html">>,
                !.popupFileExists = FALSE,
                !.content_scripts =
                    << Block(<<PatE>>, <<>>, << <<SegJ>> >>) >>]
        [] p = "p3" ->
             [NoManifest EXCEPT !.hasManifest = TRUE, !.parses = TRUE,
                !.name = <<"C">>, !.version = <<"1">>,
                !.content_scripts =
                    << Block(<<PatSub>>, << <<SegS>> >>, <<>>),
                       Block(<<PatE, PatSub>>, <<>>, << <<SegJ>> >>) >>]
        [] p = "p9" ->
             [NoManifest EXCEPT !.hasManifest = TRUE, !.parses = TRUE,
                !.name = <<"B">>, !.version = <<"1">>,
                !.content_scripts =
                    << Block(<<PatE>>, <<>>, << <<SegJ>> >>),
                       Block(<<PatE>>, << <<SegF>> >>, << <<SegK>> >>) >>]
        [] p = "p10" ->
             [NoManifest EXCEPT !.hasManifest = TRUE, !.parses = TRUE,
                !.name = <<"A">>, !.version = <<"1">>,
                !.content_scripts =
                    << [Block(<<>>, <<>>, << <<SegJ>> >>)
                          EXCEPT !.hasMatches = FALSE] >>]
        [] p = "p4" -> NoManifest
        [] p = "p5" -> [NoManifest EXCEPT !.hasManifest = TRUE]
        [] p = "p6" ->
             [NoManifest EXCEPT !.hasManifest = TRUE, !.parses = TRUE,
                !.name = <<"A", "b">>]
        [] p = "p7" ->
             [NoManifest EXCEPT !.hasManifest = TRUE, !.parses = TRUE,
                !.version = <<"1">>]
        [] OTHER -> [NoManifest EXCEPT !.dirExists = FALSE]]

Paths == DOMAIN Disk

\* the checks without the test of `version`
ManifestErrorNoVersion(m) ==
    IF ~m.hasManifest THEN "manifest.json not found"
    ELSE IF ~m.parses THEN "Invalid manifest.json"
    ELSE IF m.name = <<>> THEN "missing name or version"
    ELSE "none"

\* loadExtension, lines 367-381: the checks that throw before any change
ManifestError(m) ==
    IF ~m.hasManifest THEN "manifest.json not found"
    ELSE IF ~m.parses THEN "Invalid manifest.json"
    ELSE IF m.name = <<>> \/ m.version = <<>>
         THEN "missing name or version"
    ELSE "none"

\* the extension object built by loadExtension, lines 398-409 and 416
MakeExtension(path, electronId) ==
    LET m == Disk[path] IN
    [id |-> generateExtensionId(m.name),
     name |-> m.name,
     version |-> m.version,
     path |-> path,
     enabled |-> TRUE,
     popup |-> IF m.browser_action_popup # <<>>
               THEN m.browser_action_popup ELSE m.action_popup,
     electronId |-> electronId,
     content_scripts |-> m.content_scripts]

\* the opaque handle session.defaultSession.loadExtension returns for a path
ElectronId(path) == <<"electron-", path>>

(***************************************************************************)
(* State of the main process.                                              *)
(*   extensions          this.extensions, a Map: kept in insertion order   *)
(*   loadedExtensions    this.loadedExtensions                             *)
(*   popupWindows        this.popupWindows: extension id -> window         *)
(*   extensionStores     ids that hold an electron-store handle            *)
(*   registeredProtocols this.registeredProtocols                          *)
(*   protocolHandlers    Electron's protocol table: scheme -> directory    *)
(*                       captured by the registered file resolver          *)
(*   sessionExtensions   handles held by Electron's native loader          *)
(*   config              the persisted extensions.json                     *)
(*   storeFiles          the electron-store files: name -> key -> value    *)
(*   windows             every BrowserWindow created for a popup           *)
(* State of the renderer process.                                          *)
(*   rExtensions         this.extensions of modules/ExtensionManager.js    *)
(*   viewCalls           the calls one injectContentScripts made on a view *)
(*   injectRun           the same call: the view calls that were rejected, *)
(*                       the files it tried, whether its outer catch ran   *)
(* Replies and history.                                                    *)
(*   storageReply        result of the last getStorage                     *)
(*   fileReply           result of the last resource request               *)
(*   written             history: last value written per id and key        *)
(*   lastCall            history: the operation that made the last step    *)
(***************************************************************************)
VARIABLES extensions, loadedExtensions, popupWindows, extensionStores,
          registeredProtocols, protocolHandlers, sessionExtensions, config,
          storeFiles, windows, rExtensions, viewCalls, injectRun,
          storageReply,
          fileReply, written, lastCall

mgrVars == <<extensions, loadedExtensions, popupWindows, extensionStores,
             registeredProtocols, protocolHandlers, sessionExtensions,
             config, windows>>

vars == <<extensions, loadedExtensions, popupWindows, extensionStores,
          registeredProtocols, protocolHandlers, sessionExtensions, config,
          storeFiles, windows, rExtensions, viewCalls, injectRun,
          storageReply,
          fileReply, written, lastCall>>

\* a Map as a function whose domain is the set of keys
MapPut(f, k, v) == [x \in (DOMAIN f) \cup {k} |-> IF x = k THEN v ELSE f[x]]

MapDel(f, k) == [x \in (DOMAIN f) \ {k} |-> f[x]]

\* the insertion-ordered Map of extensions, keyed by id
ExtIds(exts) == {exts[i].id : i \in 1..Len(exts)}

ExtHas(exts, id) == id \in ExtIds(exts)

ExtGet(exts, id) == exts[CHOOSE i \in 1..Len(exts) : exts[i].id = id]

RECURSIVE ExtDelete(_, _)
ExtDelete(exts, id) ==
    IF exts = <<>> THEN <<>>
    ELSE IF Head(exts).id = id THEN ExtDelete(Tail(exts), id)
         ELSE <<Head(exts)>> \o ExtDelete(Tail(exts), id)

ExtSet(exts, ext) ==
    IF ExtHas(exts, ext.id)
    THEN [i \in 1..Len(exts) |-> IF exts[i].id = ext.id THEN ext ELSE exts[i]]
    ELSE Append(exts, ext)

\* the manager's fields as one value, so that a method is a function on it
Mgr ==
    [extensions |-> extensions, loadedExtensions |-> loadedExtensions,
     popupWindows |-> popupWindows, extensionStores |-> extensionStores,
     registeredProtocols |-> registeredProtocols,
     protocolHandlers |-> protocolHandlers,
     sessionExtensions |-> sessionExtensions, config |-> config,
     windows |-> windows]

Becomes(S) ==
    /\ extensions' = S.extensions
    /\ loadedExtensions' = S.loadedExtensions
    /\ popupWindows' = S.popupWindows
    /\ extensionStores' = S.extensionStores
    /\ registeredProtocols' = S.registeredProtocols
    /\ protocolHandlers' = S.protocolHandlers
    /\ sessionExtensions' = S.sessionExtensions
    /\ config' = S.config
    /\ windows' = S.windows

Call(op, path, id, result) ==
    [op |-> op, path |-> path, id |-> id, result |-> result]

(***************************************************************************)
(* Popup windows.  close() asks the window to close; the window is         *)
(* destroyed, and its 'closed' listeners run, when Electron delivers the   *)
(* close (action WindowClosed).                                            *)
(***************************************************************************)
\* if (!w.isDestroyed()) w.close()
CloseIfAlive(ws, w) ==
    IF ws[w].destroyed THEN ws ELSE [ws EXCEPT ![w].closing = TRUE]

\* a snapshot that leaves the enabled flag out of every entry
ConfigOfStale(exts) ==
    [exists |-> TRUE,
     extensions |-> [i \in 1..Len(exts) |->
                       [id |-> exts[i].id, name |-> exts[i].name,
                        version |-> exts[i].version, path |-> exts[i].path,
                        enabled |-> FALSE]]]

\* saveConfiguration, lines 60-78
ConfigOf(exts) ==
    [exists |-> TRUE,
     extensions |-> [i \in 1..Len(exts) |->
                       [id |-> exts[i].id, name |-> exts[i].name,
                        version |-> exts[i].version, path |-> exts[i].path,
                        enabled |-> exts[i].enabled]]]

saveConfiguration(S) == [S EXCEPT !.config = ConfigOf(S.extensions)]

\* unloadExtension, lines 654-664: close and forget the tracked popup
UnloadPopup(S, id) ==
    IF id \in DOMAIN S.popupWindows
    THEN [S EXCEPT !.windows = CloseIfAlive(S.windows, S.popupWindows[id]),
                   !.popupWindows = MapDel(S.popupWindows, id)]
    ELSE S

\* unloadExtension, lines 666-672
UnloadNative(S, ext) ==
    IF ext.electronId # <<>>
    THEN [S EXCEPT !.sessionExtensions = @ \ {ext.electronId}]
    ELSE S

\* an unload that leaves the scheme alone
UnloadProtocolSkipped(S, ext) == S

\* unloadExtension, lines 674-682
UnloadProtocol(S, ext) ==
    LET scheme == ExtensionScheme(ext.id) IN
    IF scheme \in S.registeredProtocols
    THEN [S EXCEPT !.protocolHandlers = MapDel(S.protocolHandlers, scheme),
                   !.registeredProtocols = @ \ {scheme}]
    ELSE S

\* unloadExtension, lines 684-689
UnloadRegistry(S, id) ==
    [S EXCEPT !.extensionStores = @ \ {id},
              !.extensions = ExtDelete(S.extensions, id),
              !.loadedExtensions = @ \ {id}]

\* A teardown in progress: the manager, and whether an exception has left
\* the method.  `faults` are the pairs <<id, step>> whose Electron call
\* throws: "close" is popupWindow.isDestroyed()/close() of lines 657-659,
\* "remove" session.removeExtension of line 668, "unregister"
\* protocol.unregisterProtocol of line 677, "sweep" the close() of cleanup,
\* lines 782-784.
Teardown(S) == [mgr |-> S, aborted |-> FALSE]

\* a teardown failure that no catch stops: it ends the method
TeardownFailureEscapes(acc) == [acc EXCEPT !.aborted = TRUE]

\* the catch blocks of lines 660-662, 669-671 and 679-681: they log
TeardownFailureCaught(acc) == acc

\* lines 654-664 when close may throw: the delete of line 663 follows the
\* try statement
UnloadPopupWith(acc, id, faults) ==
    IF acc.aborted \/ id \notin DOMAIN acc.mgr.popupWindows THEN acc
    ELSE IF <<id, "close">> \in faults
         THEN LET after == TeardownFailureCaught(acc)
              IN IF after.aborted THEN after
                 ELSE [after EXCEPT !.mgr.popupWindows = MapDel(@, id)]
         ELSE [acc EXCEPT !.mgr = UnloadPopup(acc.mgr, id)]

\* lines 666-672 when removeExtension may reject: the session keeps it
UnloadNativeWith(acc, ext, faults) ==
    IF acc.aborted THEN acc
    ELSE IF ext.electronId # <<>> /\ <<ext.id, "remove">> \in faults
         THEN TeardownFailureCaught(acc)
         ELSE [acc EXCEPT !.mgr = UnloadNative(acc.mgr, ext)]

\* lines 674-682 when unregisterProtocol may throw: line 678 is inside the
\* try block, so the scheme stays in registeredProtocols
UnloadProtocolWith(acc, ext, faults) ==
    IF acc.aborted THEN acc
    ELSE IF /\ ExtensionScheme(ext.id) \in acc.mgr.registeredProtocols
            /\ <<ext.id, "unregister">> \in faults
         THEN TeardownFailureCaught(acc)
         ELSE [acc EXCEPT !.mgr = UnloadProtocol(acc.mgr, ext)]

\* lines 684-692
UnloadRegistryWith(acc, id) ==
    IF acc.aborted THEN acc
    ELSE [acc EXCEPT !.mgr = saveConfiguration(UnloadRegistry(acc.mgr, id))]

\* unloadExtension, lines 651-696, with the Electron calls of `faults`
\* throwing.  session.removeExtension returns no promise, so the await of
\* line 668 gives way to no window or IPC event: the call is one step, and
\* so is cleanup, whose only awaits are those of unloadExtension.
unloadExtensionWith(S, id, faults) ==
    IF ~ExtHas(S.extensions, id) THEN S
    ELSE LET ext == ExtGet(S.extensions, id) IN
         UnloadRegistryWith(
           UnloadProtocolWith(
             UnloadNativeWith(
               UnloadPopupWith(Teardown(S), id, faults), ext, faults),
             ext, faults), id).mgr

\* unloadExtension, lines 651-696
unloadExtension(S, id) == unloadExtensionWith(S, id, {})

\* cleanup, lines 780-789: every tracked popup window is asked to close,
\* each in its own try, and the map is cleared
CleanupPopups(S, faults) ==
    LET swept == {S.popupWindows[id] :
                    id \in {i \in DOMAIN S.popupWindows :
                              <<i, "sweep">> \notin faults}}
    IN [S EXCEPT !.windows = [w \in 1..Len(S.windows) |->
                                IF w \in swept /\ ~S.windows[w].destroyed
                                THEN [S.windows[w] EXCEPT !.closing = TRUE]
                                ELSE S.windows[w]],
                 !.popupWindows = <<>>]

\* cleanup, lines 791-793: the keys of the Map in insertion order; deleting
\* the entry just visited does not disturb the iteration
RECURSIVE UnloadAll(_, _, _)
UnloadAll(S, ids, faults) ==
    IF ids = <<>> THEN S
    ELSE UnloadAll(unloadExtensionWith(S, Head(ids), faults), Tail(ids),
                   faults)

\* cleanup, lines 777-796
cleanup(S, faults) ==
    UnloadAll(CleanupPopups(S, faults),
              [i \in 1..Len(S.extensions) |-> S.extensions[i].id], faults)

\* setupExtensionProtocol, lines 490-533.  registerFileProtocol refuses a
\* scheme that is still bound and then returns false.
setupExtensionProtocol(S, ext) ==
    LET scheme == ExtensionScheme(ext.id)
        table == IF scheme \in S.registeredProtocols
                 THEN MapDel(S.protocolHandlers, scheme)
                 ELSE S.protocolHandlers
        success == scheme \notin DOMAIN table
    IN IF success
       THEN [S EXCEPT !.protocolHandlers = MapPut(table, scheme, ext.path),
                      !.registeredProtocols = @ \cup {scheme}]
       ELSE [S EXCEPT !.protocolHandlers = table]

\* loadExtension, lines 383-389: a colliding id is unloaded first
UnloadPrevious(S, id) ==
    IF ExtHas(S.extensions, id) THEN unloadExtension(S, id) ELSE S

\* loadExtension, lines 383-428, for a manifest that passed the checks.
\* The call is taken as one step: what another handler sees while it waits
\* for the native loader (line 413), the registry without the extension, is
\* the state after an unloadExtension and before a loadExtension of a new
\* id, which the model reaches by those two calls.
LoadValid(S, path, nativeOk) ==
    LET id == generateExtensionId(Disk[path].name)
        S1 == UnloadPrevious(S, id)
        ext == MakeExtension(path, IF nativeOk THEN ElectronId(path) ELSE <<>>)
        S2 == IF nativeOk
              THEN [S1 EXCEPT !.sessionExtensions = @ \cup {ext.electronId}]
              ELSE S1
        S3 == [S2 EXCEPT !.extensions = ExtSet(S2.extensions, ext),
                         !.loadedExtensions = @ \cup {ext.id}]
    IN saveConfiguration(setupExtensionProtocol(S3, ext))

\* loadExtension, lines 363-436
loadExtension(S, path, nativeOk) ==
    IF ManifestError(Disk[path]) # "none" THEN S
    ELSE LoadValid(S, path, nativeOk)

\* one entry of the loop of initializeFromConfig, lines 37-48: a directory
\* that is gone is skipped, a loadExtension that throws is caught
RestoreEntry(S, entry, native) ==
    IF ~Disk[entry.path].dirExists THEN S
    ELSE loadExtension(S, entry.path, entry.path \in native)

RECURSIVE RestoreEntries(_, _, _)
RestoreEntries(S, entries, native) ==
    IF entries = <<>> THEN S
    ELSE RestoreEntries(RestoreEntry(S, Head(entries), native),
                        Tail(entries), native)

\* a restore that gives up at the first entry that cannot be loaded
initializeFromConfigStopping(S, native) ==
    IF ~S.config.exists THEN S
    ELSE LET entries == S.config.extensions
             bad == {i \in 1..Len(entries) :
                       \/ ~Disk[entries[i].path].dirExists
                       \/ ManifestError(Disk[entries[i].path]) # "none"}
             upTo == IF bad = {} THEN Len(entries)
                     ELSE (CHOOSE i \in bad : \A j \in bad : i <= j) - 1
         IN RestoreEntries(S, SubSeq(entries, 1, upTo), native)

\* initializeFromConfig, lines 28-57; `native` are the directories Electron's
\* loader accepts
initializeFromConfig(S, native) ==
    IF ~S.config.exists THEN S
    ELSE RestoreEntries(S, S.config.extensions, native)

otherVars == <<storeFiles, rExtensions, viewCalls, injectRun, storageReply,
               fileReply,
               written>>

LoadExtension(path, nativeOk) ==
    /\ nativeOk => ManifestError(Disk[path]) = "none"
    /\ Becomes(loadExtension(Mgr, path, nativeOk))
    /\ lastCall' = Call("loadExtension", path,
                        generateExtensionId(Disk[path].name),
                        IF ManifestError(Disk[path]) # "none"
                        THEN "throw" ELSE "ok")
    /\ UNCHANGED otherVars

\* getExtension, lines 702-704, and getExtensions, lines 698-700, hand out
\* the registry's own objects: an assignment a main-process caller makes to a
\* field of the result is an assignment to the registry entry
AssignedThroughResult(exts, id, enabled) ==
    [i \in 1..Len(exts) |->
        IF exts[i].id = id THEN [exts[i] EXCEPT !.enabled = enabled]
        ELSE exts[i]]

\* a caller of getExtension(id) sets `enabled` on the object it was given
CallerSetsEnabled(id, enabled) ==
    /\ ExtHas(extensions, id)
    /\ extensions' = AssignedThroughResult(extensions, id, enabled)
    /\ lastCall' = Call("callerSetsEnabled", "", id, "")
    /\ UNCHANGED <<loadedExtensions, popupWindows, extensionStores,
                   registeredProtocols, protocolHandlers, sessionExtensions,
                   config, windows>>
    /\ UNCHANGED otherVars

\* main.js line 19: the first call on the manager after its construction
InitializeFromConfig(native) ==
    /\ lastCall.op = "constructor"
    /\ Becomes(initializeFromConfig(Mgr, native))
    /\ lastCall' = Call("initializeFromConfig", "",
                        [i \in 1..Len(config.extensions) |->
                            config.extensions[i].path],
                        "ok")
    /\ UNCHANGED otherVars

UnloadExtension(id) ==
    /\ Becomes(unloadExtension(Mgr, id))
    /\ lastCall' = Call("unloadExtension", "", id,
                        IF ExtHas(extensions, id) THEN "ok" ELSE "noop")
    /\ UNCHANGED otherVars

\* the Electron calls an unloadExtension(id) makes: only these can throw
UnloadThrowers(S, id) ==
    IF ~ExtHas(S.extensions, id) THEN {}
    ELSE {<<id, "close">> : x \in {id} \cap DOMAIN S.popupWindows}
         \cup {<<id, "remove">> :
                 x \in {e \in {ExtGet(S.extensions, id)} : e.electronId # <<>>}}
         \cup {<<id, "unregister">> :
                 x \in {ExtensionScheme(id)} \cap S.registeredProtocols}

\* the Electron calls a cleanup() makes: the popup map is empty by the time
\* the extensions are unloaded
CleanupThrowers(S) ==
    {<<id, "sweep">> : id \in DOMAIN S.popupWindows}
    \cup UNION {UnloadThrowers([S EXCEPT !.popupWindows = <<>>], id) :
                  id \in ExtIds(S.extensions)}

\* at most MaxFaults of the calls throw
FaultsAmong(throwers) ==
    {f \in SUBSET throwers : Cardinality(f) <= MaxFaults}

\* unloadExtension while some Electron calls throw
UnloadExtensionWith(id, faults) ==
    /\ faults \in FaultsAmong(UnloadThrowers(Mgr, id))
    /\ Becomes(unloadExtensionWith(Mgr, id, faults))
    /\ lastCall' = Call("unloadExtension", "", id,
                        [outcome |-> IF ExtHas(extensions, id)
                                     THEN "ok" ELSE "noop",
                         faults |-> faults])
    /\ UNCHANGED otherVars

Cleanup(faults) ==
    /\ faults \in FaultsAmong(CleanupThrowers(Mgr))
    /\ Becomes(cleanup(Mgr, faults))
    /\ lastCall' = Call("cleanup", "", <<>>,
                        [ids |-> ExtIds(extensions),
                         popups |-> DOMAIN popupWindows,
                         faults |-> faults])
    /\ UNCHANGED otherVars

(***************************************************************************)
(* showExtensionPopup, extension-manager.js lines 535-649.  The call is    *)
(* suspended once, at `await popupWindow.loadURL(loadUrl)`: the part up to *)
(* there is ShowExtensionPopup, the part after it is LoadFinished.         *)
(***************************************************************************)
Ids == {<<"a", "b">>, <<"c">>, <<"z">>}

PopupUrls == {<<>>, UrlE}

\* parentWindow.webContents.getURL(), the shell's own page
ParentUrl == <<"app">>

\* lines 544-553
DeriveUrl(url) == IF url = <<>> THEN ParentUrl ELSE url

NoHandshake ==
    [done |-> FALSE, answered |-> FALSE, extension |-> <<>>,
     currentUrl |-> <<>>]

\* new BrowserWindow({width: 400, height: 600, show: false, ...})
NewWindow(ext, url) ==
    [ext |-> ext.id, path |-> ext.path, url |-> url, phase |-> "loading",
     destroyed |-> FALSE, closing |-> FALSE, shown |-> FALSE,
     onClosed |-> FALSE, timer |-> FALSE, size |-> "default",
     handshake |-> NoHandshake]

\* lines 560-571
CloseExisting(S, id) ==
    IF id \in DOMAIN S.popupWindows
    THEN [S EXCEPT !.windows = CloseIfAlive(S.windows, S.popupWindows[id]),
                   !.popupWindows = MapDel(S.popupWindows, id)]
    ELSE S

\* a test that asks only whether the extension is registered
HasPopupAny(exts, id) == ExtHas(exts, id)

\* lines 538-542
HasPopup(exts, id) == ExtHas(exts, id) /\ ExtGet(exts, id).popup # <<>>

ShowExtensionPopup(id, url) ==
    /\ IF ~HasPopup(extensions, id)
       THEN /\ UNCHANGED mgrVars
            /\ lastCall' = Call("showExtensionPopup", "", id, "no popup")
       ELSE LET ext == ExtGet(extensions, id)
                S1 == CloseExisting(Mgr, id)
            IN IF ~Disk[ext.path].popupFileExists
               THEN /\ Becomes(S1)
                    /\ lastCall' = Call("showExtensionPopup", "", id,
                                        "file not found")
               ELSE /\ Len(windows) < MaxWindows
                    /\ Becomes([S1 EXCEPT !.windows =
                          Append(S1.windows, NewWindow(ext, DeriveUrl(url)))])
                    /\ lastCall' = Call("showExtensionPopup", "", id,
                                        "awaiting load")
    /\ UNCHANGED otherVars

\* lines 613-648: loadURL settles; on success the resize timer is armed, the
\* 'closed' listener registered and the window recorded
LoadFinished(w, ok) ==
    /\ w \in 1..Len(windows)
    /\ windows[w].phase = "loading"
    /\ ok => windows[w].handshake.done
    /\ IF ok
       THEN /\ windows' = [windows EXCEPT ![w].phase = "returned",
                                          ![w].timer = TRUE,
                                          ![w].onClosed = TRUE]
            /\ popupWindows' = MapPut(popupWindows, windows[w].ext, w)
            /\ lastCall' = Call("loadFinished", "", windows[w].ext, "success")
       ELSE /\ windows' = [windows EXCEPT ![w].phase = "failed"]
            /\ popupWindows' = popupWindows
            /\ lastCall' = Call("loadFinished", "", windows[w].ext, "failure")
    /\ UNCHANGED <<extensions, loadedExtensions, extensionStores,
                   registeredProtocols, protocolHandlers, sessionExtensions,
                   config>>
    /\ UNCHANGED otherVars

\* the channel the popup preload asks on (extension-preload, line 13)
PreloadChannel == "get-popup-init-data"

\* main.js lines 348-363: the only synchronous listener; currentPopupContext
\* is not declared anywhere, so the catch branch answers
PopupExtensionData ==
    [done |-> TRUE, answered |-> TRUE, extension |-> <<"unknown">>,
     currentUrl |-> <<"about:blank">>]

\* what ipcRenderer.sendSync(channel) yields in the preload
SendSync(channel) ==
    IF channel = "get-popup-extension-data" THEN PopupExtensionData
    ELSE [NoHandshake EXCEPT !.done = TRUE]

\* the preload of a popup window runs when its navigation starts
PreloadHandshake(w) ==
    /\ w \in 1..Len(windows)
    /\ windows[w].phase = "loading"
    /\ ~windows[w].destroyed
    /\ ~windows[w].handshake.done
    /\ windows' = [windows EXCEPT ![w].handshake = SendSync(PreloadChannel)]
    /\ lastCall' = Call("event", "", <<>>, "")
    /\ UNCHANGED <<extensions, loadedExtensions, popupWindows,
                   extensionStores, registeredProtocols, protocolHandlers,
                   sessionExtensions, config>>
    /\ UNCHANGED otherVars

\* lines 615-636: the setTimeout callback
ResizeTimer(w, measured) ==
    /\ w \in 1..Len(windows)
    /\ windows[w].timer
    /\ windows' = [windows EXCEPT
          ![w].timer = FALSE,
          ![w].shown = TRUE,
          ![w].size = IF measured THEN "measured" ELSE @]
    /\ lastCall' = Call("event", "", <<>>, "")
    /\ UNCHANGED <<extensions, loadedExtensions, popupWindows,
                   extensionStores, registeredProtocols, protocolHandlers,
                   sessionExtensions, config>>
    /\ UNCHANGED otherVars

\* A destroyed window keeps its identity only.  A resize timer still
\* pending finds it destroyed (lines 617 and 632) and does nothing, so it is
\* dropped with the window; a loadURL still pending is rejected, and the
\* catch block (lines 645-648) changes no state, so the call that created
\* the window is over as well.
Destroyed(win) ==
    [win EXCEPT !.destroyed = TRUE, !.phase = "closed", !.closing = FALSE,
                !.shown = FALSE, !.timer = FALSE, !.size = "default",
                !.onClosed = FALSE, !.handshake = NoHandshake]

\* Electron closes a window (the user closed it, or close() was called):
\* the window is destroyed and its 'closed' listener, lines 638-641, runs
WindowClosed(w) ==
    /\ w \in 1..Len(windows)
    /\ ~windows[w].destroyed
    /\ windows' = [windows EXCEPT ![w] = Destroyed(windows[w])]
    /\ popupWindows' = IF windows[w].onClosed
                       THEN MapDel(popupWindows, windows[w].ext)
                       ELSE popupWindows
    /\ lastCall' = Call("event", "", <<>>, "")
    /\ UNCHANGED <<extensions, loadedExtensions, extensionStores,
                   registeredProtocols, protocolHandlers, sessionExtensions,
                   config>>
    /\ UNCHANGED otherVars

(***************************************************************************)
(* Per-extension storage, extension-manager.js lines 80-113, reached from  *)
(* any page through the IPC handlers of main.js lines 581-588, which pass  *)
(* the extension id of the request on unchanged.  An electron-store is a   *)
(* file holding a flat map from keys to values.                            *)
(***************************************************************************)
StorageIds == {<<"a", "b">>, <<"c">>}

Keys == {"k1", "k2", ""}

Values == {"v1", "v2"}

\* a handle that starts from its defaults, {}, whatever the file holds
StoreOfEmpty(files, id) == <<>>

\* getExtensionStore, lines 80-90: the contents behind the handle
StoreOf(files, id) ==
    IF StoreName(id) \in DOMAIN files THEN files[StoreName(id)] ELSE <<>>

\* store.get(key, fallback) ?? null
StoreGet(store, key, fallback) ==
    IF key \in DOMAIN store THEN store[key] ELSE fallback

\* the `keys` argument: absent, a string, an array, or a map of defaults
NoKeys == [kind |-> "none", key |-> "", keys |-> {}, defaults |-> <<>>]

StringKey(k) == [NoKeys EXCEPT !.kind = "string", !.key = k]

ArrayKeys(ks) == [NoKeys EXCEPT !.kind = "array", !.keys = ks]

DefaultKeys(d) == [NoKeys EXCEPT !.kind = "object", !.defaults = d]

\* getStorage, lines 92-106
getStorage(files, id, keys) ==
    LET store == StoreOf(files, id) IN
    IF keys.kind = "none" \/ (keys.kind = "string" /\ keys.key = "")
    THEN store
    ELSE IF keys.kind = "string"
    THEN [k \in {keys.key} |-> StoreGet(store, k, "null")]
    ELSE IF keys.kind = "array"
    THEN [k \in keys.keys |-> StoreGet(store, k, "null")]
    ELSE [k \in DOMAIN keys.defaults |->
            StoreGet(store, k, keys.defaults[k])]

\* setStorage, lines 110-112: store.set(key, items[key]) for each key
StoreSetAll(store, items) ==
    [k \in (DOMAIN store) \cup (DOMAIN items) |->
        IF k \in DOMAIN items THEN items[k] ELSE store[k]]

\* setStorage, lines 108-113
setStorage(files, id, items) ==
    MapPut(files, StoreName(id), StoreSetAll(StoreOf(files, id), items))

GetArgs ==
    {NoKeys} \cup {StringKey(k) : k \in Keys}
      \cup {ArrayKeys({"k1", "k2"}), DefaultKeys([k \in {"k1"} |-> "v2"])}

ItemArgs ==
    {[k \in {key} |-> v] : key \in Keys \ {""}, v \in Values}
      \cup {[k \in {"k1", "k2"} |-> "v1"]}

GetStorage(id, keys) ==
    /\ extensionStores' = extensionStores \cup {id}
    /\ storageReply' = getStorage(storeFiles, id, keys)
    /\ lastCall' = Call("getStorage", keys.kind, id, keys.key)
    /\ UNCHANGED <<extensions, loadedExtensions, popupWindows,
                   registeredProtocols, protocolHandlers, sessionExtensions,
                   config, windows>>
    /\ UNCHANGED <<storeFiles, rExtensions, viewCalls, injectRun, fileReply,
                   written>>

SetStorage(id, items) ==
    /\ extensionStores' = extensionStores \cup {id}
    /\ storeFiles' = setStorage(storeFiles, id, items)
    /\ written' = [p \in (DOMAIN written) \cup ({id} \X DOMAIN items) |->
                      IF p[1] = id /\ p[2] \in DOMAIN items
                      THEN items[p[2]] ELSE written[p]]
    /\ lastCall' = Call("setStorage", "", id, "")
    /\ UNCHANGED <<extensions, loadedExtensions, popupWindows,
                   registeredProtocols, protocolHandlers, sessionExtensions,
                   config, windows>>
    /\ UNCHANGED <<rExtensions, viewCalls, injectRun, storageReply,
                   fileReply>>

(***************************************************************************)
(* Extension resources.  A path is a sequence of segments and a segment a  *)
(* sequence of characters; PathString is the string Node's path module     *)
(* works on.                                                               *)
(***************************************************************************)
\* where the extension directories are
DirOf(path) ==
    CASE path = "p1" -> <<SegX, SegAb>>
      [] path = "p3" -> <<SegX, SegAbc>>
      [] path = "p9" -> <<SegX, SegK>>
      [] OTHER -> <<SegX, SegN>>

FilesOnDisk ==
    {<<SegX, SegAb, SegF>>, <<SegX, SegAb, SegJ>>, <<SegX, SegAbc, SegS>>,
     <<SegX, SegAbc, SegJ>>, <<SegX, SegS>>, <<SegX, SegK, SegF>>,
     <<SegX, SegK, SegJ>>, <<SegX, SegK, SegK>>}

\* files whose content is empty
EmptyFiles == {<<SegX, SegAbc, SegJ>>}

IsSegPrefix(a, b) == Len(a) <= Len(b) /\ SubSeq(b, 1, Len(a)) = a

\* fs.existsSync: true of files and of directories
ExistsSync(p) == \E f \in FilesOnDisk : IsSegPrefix(p, f)

RECURSIVE PathString(_)
PathString(p) ==
    IF p = <<>> THEN <<>> ELSE <<"/">> \o Head(p) \o PathString(Tail(p))

\* path.normalize of an absolute path: `..` drops the segment before it
RECURSIVE NormalizeOnto(_, _)
NormalizeOnto(done, rest) ==
    IF rest = <<>> THEN done
    ELSE IF Head(rest) = SegUp
         THEN NormalizeOnto(IF done = <<>> THEN <<>>
                            ELSE SubSeq(done, 1, Len(done) - 1), Tail(rest))
         ELSE NormalizeOnto(Append(done, Head(rest)), Tail(rest))

\* path.join(dir, rel)
PathJoin(dir, rel) == NormalizeOnto(<<>>, dir \o rel)

\* path.resolve of an absolute path
PathResolve(p) == NormalizeOnto(<<>>, p)

FileReply(kind, path, dir) == [kind |-> kind, path |-> path, dir |-> dir]

\* inside the extension directory: lines 507-514
InsideCheck(resolvedPath, extensionDir) ==
    StartsWith(PathString(resolvedPath), PathString(extensionDir))

\* the file resolver bound by setupExtensionProtocol, lines 502-522
ResolveProtocol(extPath, rel) ==
    LET filePath == PathJoin(DirOf(extPath), rel)
        resolvedPath == PathResolve(filePath)
        extensionDir == PathResolve(DirOf(extPath))
    IN IF ~InsideCheck(resolvedPath, extensionDir)
       THEN FileReply("not found", resolvedPath, extensionDir)
       ELSE IF ExistsSync(resolvedPath)
            THEN FileReply(IF resolvedPath \in FilesOnDisk
                           THEN "file" ELSE "directory",
                           resolvedPath, extensionDir)
            ELSE FileReply("not found", resolvedPath, extensionDir)

\* main.js lines 565-580, the get-extension-file-content handler
ReadExtensionFile(exts, id, rel) ==
    IF ~ExtHas(exts, id) THEN FileReply("not found", <<>>, <<>>)
    ELSE LET dir == DirOf(ExtGet(exts, id).path)
             fullPath == PathJoin(dir, rel)
         IN IF ~ExistsSync(fullPath)
            THEN FileReply("not found", fullPath, dir)
            ELSE IF fullPath \in FilesOnDisk
                 THEN FileReply("file", fullPath, dir)
                 ELSE FileReply("not found", fullPath, dir)

RelSegs == {SegUp, SegF, SegS, SegAbc}

RECURSIVE SeqsUpTo(_, _)
SeqsUpTo(S, n) ==
    IF n = 0 THEN {<<>>}
    ELSE LET shorter == SeqsUpTo(S, n - 1)
         IN shorter \cup {Append(q, x) : q \in shorter, x \in S}

RelPaths == SeqsUpTo(RelSegs, MaxRelLen)

ProtocolRequest(scheme, rel) ==
    /\ scheme \in DOMAIN protocolHandlers
    /\ fileReply' = ResolveProtocol(protocolHandlers[scheme], rel)
    /\ lastCall' = Call("protocolRequest", "", <<>>, "")
    /\ UNCHANGED mgrVars
    /\ UNCHANGED <<storeFiles, rExtensions, viewCalls, injectRun,
                   storageReply, written>>

GetExtensionFileContent(id, rel) ==
    /\ fileReply' = ReadExtensionFile(extensions, id, rel)
    /\ lastCall' = Call("getExtensionFileContent", "", id, "")
    /\ UNCHANGED mgrVars
    /\ UNCHANGED <<storeFiles, rExtensions, viewCalls, injectRun,
                   storageReply, written>>

(***************************************************************************)
(* URL patterns: testPattern and matchesUrl, extension-manager.js lines    *)
(* 750-775 and modules/ExtensionManager.js lines 269-292 (the same text).  *)
(***************************************************************************)
RECURSIVE ReplaceAll(_, _, _)
ReplaceAll(str, c, by) ==
    IF str = <<>> THEN <<>>
    ELSE (IF Head(str) = c THEN by ELSE <<Head(str)>>)
           \o ReplaceAll(Tail(str), c, by)

\* the source text handed to new RegExp
RegexSource(pattern) ==
    LET regex == ReplaceAll(ReplaceAll(ReplaceAll(pattern,
                    ".", <<"\\", ".">>), "*", <<".", "*">>), "?", <<".">>)
    IN IF Includes(pattern, <<":", "/", "/">>)
       THEN <<"^">> \o regex \o <<"$">>
       ELSE regex

Tok(t, c) == [t |-> t, c |-> c]

\* the regular expression a source text denotes
RECURSIVE ParseRegex(_)
ParseRegex(src) ==
    IF src = <<>> THEN <<>>
    ELSE IF Head(src) = "\\" /\ Len(src) >= 3 /\ src[3] = "*"
         THEN <<Tok("many", src[2])>> \o ParseRegex(Tail(Tail(Tail(src))))
    ELSE IF Head(src) = "\\" /\ Len(src) >= 2
         THEN <<Tok("lit", src[2])>> \o ParseRegex(Tail(Tail(src)))
    ELSE IF Head(src) = "." /\ Len(src) >= 2 /\ src[2] = "*"
         THEN <<Tok("star", "")>> \o ParseRegex(Tail(Tail(src)))
    ELSE IF Head(src) = "."
         THEN <<Tok("any", "")>> \o ParseRegex(Tail(src))
    ELSE IF Head(src) = "^"
         THEN <<Tok("bol", "")>> \o ParseRegex(Tail(src))
    ELSE IF Head(src) = "$"
         THEN <<Tok("eol", "")>> \o ParseRegex(Tail(src))
    ELSE <<Tok("lit", Head(src))>> \o ParseRegex(Tail(src))

\* the tokens match str from position pos (characters consumed so far)
RECURSIVE MatchAt(_, _, _)
MatchAt(toks, str, pos) ==
    IF toks = <<>> THEN TRUE
    ELSE LET tok == Head(toks) IN
         CASE tok.t = "bol" -> pos = 0 /\ MatchAt(Tail(toks), str, pos)
           [] tok.t = "eol" ->
                pos = Len(str) /\ MatchAt(Tail(toks), str, pos)
           [] tok.t = "lit" ->
                /\ pos < Len(str)
                /\ str[pos + 1] = tok.c
                /\ MatchAt(Tail(toks), str, pos + 1)
           [] tok.t = "any" ->
                pos < Len(str) /\ MatchAt(Tail(toks), str, pos + 1)
           [] tok.t = "many" ->
                \E k \in pos..Len(str) :
                   /\ \A i \in (pos + 1)..k : str[i] = tok.c
                   /\ MatchAt(Tail(toks), str, k)
           [] OTHER ->
                \E k \in pos..Len(str) : MatchAt(Tail(toks), str, k)

\* RegExp.prototype.test: a match starting anywhere
RegexTest(toks, str) == \E start \in 0..Len(str) : MatchAt(toks, str, start)

\* new RegExp(regex) accepts the source text: no backslash is left without
\* a character to escape
RECURSIVE Compiles(_)
Compiles(src) ==
    IF src = <<>> THEN TRUE
    ELSE IF Head(src) = "\\" THEN Len(src) >= 2 /\ Compiles(Tail(Tail(src)))
    ELSE Compiles(Tail(src))

\* a catch that takes the pattern for a match
OnInvalidPatternMatch == TRUE

\* the catch of testPattern, lines 771-774
OnInvalidPattern == FALSE

\* testPattern, lines 759-775
testPattern(url, pattern) ==
    IF Compiles(RegexSource(pattern))
    THEN RegexTest(ParseRegex(RegexSource(pattern)), url)
    ELSE OnInvalidPattern

matchesUrl(url, patterns) ==
    \E i \in 1..Len(patterns) : testPattern(url, patterns[i])

(***************************************************************************)
(* Content-script injection.  The result of one injectContentScripts is    *)
(* the sequence of calls made on the view, and whether an exception        *)
(* reached the outer catch and ended the loop.                             *)
(***************************************************************************)
ViewCall(method, id, what) == [method |-> method, ext |-> id, what |-> what]

\* what an API-script injection executes, named like a file
ApiScript == << <<"api">> >>

NoCalls ==
    [log |-> <<>>, aborted |-> FALSE, attempts |-> <<>>, faults |-> {}]

\* a run in which the view rejects the calls that carry one of `faults`
Rejecting(faults) == [NoCalls EXCEPT !.faults = faults]

Logged(acc, call) == [acc EXCEPT !.log = Append(@, call)]

\* the try block of one declared file was entered
Tried(acc, id, file) ==
    [acc EXCEPT !.attempts = Append(@, [ext |-> id, what |-> file])]

\* a block applied whatever the URL
BlockAppliesAlways(url, block) == TRUE

\* `if (this.matchesUrl(url, script.matches))`: renderer line 316, main 719
BlockApplies(url, block) == matchesUrl(url, block.matches)

\* window.electronAPI.getExtensionFileContent(extension.id, file) from the
\* renderer: answered by main.js from the main registry
ContentOf(mainExts, id, file) ==
    LET reply == ReadExtensionFile(mainExts, id, file)
    IN IF reply.kind # "file" THEN "throws"
       ELSE IF reply.path \in EmptyFiles THEN "empty" ELSE "text"

\* a failure inside the try block of one file that no catch stops
FileFailureEscapes(acc) == [acc EXCEPT !.aborted = TRUE]

\* the catch of one file: renderer lines 324-326 and 373-375, main lines
\* 725-727 and 737-739; it logs and the loop goes on
FileFailureCaught(acc) == acc

\* renderer lines 320-326: one CSS file
CssFileR(mainExts, ext, file, acc) ==
    LET tried == Tried(acc, ext.id, file)
        called == Logged(tried, ViewCall("insertCSS", ext.id, file))
    IN IF ContentOf(mainExts, ext.id, file) = "throws"
       THEN FileFailureCaught(tried)
       ELSE IF file \in acc.faults THEN FileFailureCaught(called)
       ELSE called

\* renderer lines 318-327
RECURSIVE CssCallsR(_, _, _, _)
CssCallsR(mainExts, ext, css, acc) ==
    IF css = <<>> \/ acc.aborted THEN acc
    ELSE CssCallsR(mainExts, ext, Tail(css),
                   CssFileR(mainExts, ext, Head(css), acc))

\* renderer lines 294-306 with the main.js handler, lines 590-596
ApiCallR(mainExts, ext, acc) ==
    IF ~ExtHas(mainExts, ext.id) THEN acc
    ELSE Logged(acc, ViewCall("executeJavaScript", ext.id, ApiScript))

\* renderer lines 333-375: one JS file; an empty file is skipped, a body
\* that throws is caught inside the page by the wrapper of lines 343-369
JsFileR(mainExts, ext, file, acc) ==
    LET tried == Tried(acc, ext.id, file)
        called == Logged(tried, ViewCall("executeJavaScript", ext.id, file))
        content == ContentOf(mainExts, ext.id, file)
    IN IF content = "throws" THEN FileFailureCaught(tried)
       ELSE IF content = "empty" THEN tried
       ELSE IF file \in acc.faults THEN FileFailureCaught(called)
       ELSE called

\* renderer lines 332-376
RECURSIVE JsCallsR(_, _, _, _)
JsCallsR(mainExts, ext, js, acc) ==
    IF js = <<>> \/ acc.aborted THEN acc
    ELSE JsCallsR(mainExts, ext, Tail(js),
                  JsFileR(mainExts, ext, Head(js), acc))

\* renderer lines 316-378
BlockCallsR(mainExts, ext, block, acc) ==
    LET afterCss == CssCallsR(mainExts, ext, block.css, acc)
    IN IF block.hasJs /\ ~afterCss.aborted
       THEN JsCallsR(mainExts, ext, block.js,
                     ApiCallR(mainExts, ext, afterCss))
       ELSE afterCss

\* renderer lines 315-379
RECURSIVE BlocksR(_, _, _, _, _)
BlocksR(mainExts, ext, blocks, url, acc) ==
    IF blocks = <<>> \/ acc.aborted THEN acc
    ELSE IF ~Head(blocks).hasMatches THEN [acc EXCEPT !.aborted = TRUE]
    ELSE BlocksR(mainExts, ext, Tail(blocks), url,
           IF BlockApplies(url, Head(blocks))
           THEN BlockCallsR(mainExts, ext, Head(blocks), acc)
           ELSE acc)

\* renderer injectContentScripts, lines 308-384
RECURSIVE InjectR(_, _, _, _)
InjectR(exts, mainExts, url, acc) ==
    IF exts = <<>> \/ acc.aborted THEN acc
    ELSE InjectR(Tail(exts), mainExts, url,
           IF ~Head(exts).enabled THEN acc
           ELSE BlocksR(mainExts, Head(exts), Head(exts).content_scripts,
                        url, acc))

\* main lines 721-728 and 733-740: `window` does not exist in the main
\* process, so each file read throws inside its try block and is caught
RECURSIVE FilesM(_, _, _)
FilesM(ext, files, acc) ==
    IF files = <<>> \/ acc.aborted THEN acc
    ELSE FilesM(ext, Tail(files),
                FileFailureCaught(Tried(acc, ext.id, Head(files))))

\* main lines 137-361 called from line 732, outside any try block of the
\* loops: a rejected executeJavaScript is thrown again and ends them
ApiCallM(ext, acc) ==
    LET called == Logged(acc, ViewCall("executeJavaScript", ext.id, ApiScript))
    IN IF ApiScript \in acc.faults
       THEN [called EXCEPT !.aborted = TRUE]
       ELSE called

\* main lines 720-741: only the API script reaches the view
BlockCallsM(ext, block, acc) ==
    LET afterCss == FilesM(ext, block.css, acc)
        afterApi == ApiCallM(ext, afterCss)
    IN IF ~block.hasJs \/ afterCss.aborted THEN afterCss
       ELSE IF afterApi.aborted THEN afterApi
       ELSE FilesM(ext, block.js, afterApi)

\* main lines 718-743
RECURSIVE BlocksM(_, _, _, _)
BlocksM(ext, blocks, url, acc) ==
    IF blocks = <<>> \/ acc.aborted THEN acc
    ELSE IF ~Head(blocks).hasMatches THEN [acc EXCEPT !.aborted = TRUE]
    ELSE BlocksM(ext, Tail(blocks), url,
           IF BlockApplies(url, Head(blocks))
           THEN BlockCallsM(ext, Head(blocks), acc)
           ELSE acc)

\* main injectContentScripts, lines 710-748
RECURSIVE InjectM(_, _, _)
InjectM(exts, url, acc) ==
    IF exts = <<>> \/ acc.aborted THEN acc
    ELSE InjectM(Tail(exts), url,
           IF Head(exts).electronId # <<>> \/ ~Head(exts).enabled THEN acc
           ELSE BlocksM(Head(exts), Head(exts).content_scripts, url, acc))

Urls == {UrlE, UrlO, UrlN}

\* the page of a view: the marker window.chrome._extensionId, in order the
\* ids whose API surface an executed script assigned, and the extension
\* that each part of window.chrome now answers for (<<>>: not defined)
NoPage ==
    [marker |-> <<>>, installs |-> <<>>, runtimeId |-> <<>>,
     getManifest |-> <<>>, getURL |-> <<>>, storageId |-> <<>>]

\* `x = x || f`: an assignment that keeps what is there
OrAssign(old, new) == IF old = <<>> THEN new ELSE old

\* the script of the get-extension-api-script handler, main.js lines 604-776,
\* which the renderer executes: it tests no marker and assigns
\* chrome.runtime.id, sendMessage, storage.local.get/set and tabs.query anew,
\* but chrome.extension.getURL (line 606) and chrome.runtime.getManifest
\* (line 610) only if the page has none
ApiScriptRunR(page, id) ==
    [page EXCEPT !.installs = Append(@, id),
                 !.getURL = OrAssign(@, id),
                 !.getManifest = OrAssign(@, id),
                 !.runtimeId = id,
                 !.storageId = id]

\* the script of the main injectExtensionAPIs, lines 161-353, for an
\* extension without electronId (the only ones injectContentScripts passes
\* on): it returns at line 165 when the marker is this id, else sets the
\* marker and assigns runtime.id, getManifest, getURL and storage.local
ApiScriptRunM(page, id) ==
    IF page.marker = id THEN page
    ELSE [page EXCEPT !.marker = id,
                      !.installs = Append(@, id),
                      !.runtimeId = id,
                      !.getManifest = id,
                      !.getURL = id,
                      !.storageId = id]

\* the page after the view executed the API scripts among `calls`
RECURSIVE PageAfter(_, _, _)
PageAfter(calls, isMain, page) ==
    IF calls = <<>> THEN page
    ELSE PageAfter(Tail(calls), isMain,
           IF Head(calls).what # ApiScript THEN page
           ELSE IF isMain THEN ApiScriptRunM(page, Head(calls).ext)
           ELSE ApiScriptRunR(page, Head(calls).ext))

\* what the caller of injectContentScripts is left with
RunOf(acc) ==
    [faults |-> acc.faults, attempts |-> acc.attempts, aborted |-> acc.aborted]

InjectRendererWith(url, faults) ==
    LET run == InjectR(rExtensions, extensions, url, Rejecting(faults)) IN
    /\ viewCalls' = run.log
    /\ injectRun' = RunOf(run)
    /\ lastCall' = Call("injectRenderer", "", url, "")
    /\ UNCHANGED mgrVars
    /\ UNCHANGED <<storeFiles, rExtensions, storageReply, fileReply, written>>

InjectMainWith(url, faults) ==
    LET run == InjectM(extensions, url, Rejecting(faults)) IN
    /\ viewCalls' = run.log
    /\ injectRun' = RunOf(run)
    /\ lastCall' = Call("injectMain", "", url, "")
    /\ UNCHANGED mgrVars
    /\ UNCHANGED <<storeFiles, rExtensions, storageReply, fileReply, written>>

\* injection into a view that rejects nothing
InjectRenderer(url) == InjectRendererWith(url, {})

InjectMain(url) == InjectMainWith(url, {})

\* renderer loadExtensions, lines 10-43: the list becomes what the
\* get-extensions handler (main.js lines 544-546) returns
RLoadExtensions ==
    /\ rExtensions' = extensions
    /\ lastCall' = Call("rLoadExtensions", "", <<>>, "")
    /\ UNCHANGED mgrVars
    /\ UNCHANGED <<storeFiles, viewCalls, injectRun, storageReply, fileReply,
                   written>>

\* renderer loadExtension, lines 226-256, through the load-extension
\* handler (main.js lines 527-542): the result is pushed onto the list
RLoadExtension(path, nativeOk) ==
    /\ Len(rExtensions) < MaxRenderer
    /\ nativeOk => ManifestError(Disk[path]) = "none"
    /\ Becomes(loadExtension(Mgr, path, nativeOk))
    /\ rExtensions' =
          IF ManifestError(Disk[path]) # "none" THEN rExtensions
          ELSE Append(rExtensions,
                 MakeExtension(path,
                   IF nativeOk THEN ElectronId(path) ELSE <<>>))
    /\ lastCall' = Call("rLoadExtension", path,
                        generateExtensionId(Disk[path].name),
                        IF ManifestError(Disk[path]) # "none"
                        THEN "throw" ELSE "ok")
    /\ UNCHANGED <<storeFiles, viewCalls, injectRun, storageReply, fileReply,
                   written>>

(***************************************************************************)
(* chrome.storage.local.get and set of the synthesized API.  An argument   *)
(* is a function, another truthy value, or null/undefined; a call ends     *)
(* with what it returned and what became of its callback.                  *)
(***************************************************************************)
ArgKinds == {"function", "object", "null"}

ArgLists == SeqsUpTo(ArgKinds, MaxArgs)

Outcome(returns, callback) == [returns |-> returns, callback |-> callback]

\* `setTimeout(() => callback(result), 0)` behind `if (callback)`
Scheduled(callback) ==
    CASE callback = "function" -> "invoked"
      [] callback = "object" -> "not callable"
      [] OTHER -> "none"

\* the argument parsing of get: extension-manager.js lines 211-224, main.js
\* lines 689-702, part_005 lines 150-163
GetCallback(args) ==
    IF Len(args) = 1 /\ args[1] = "function" THEN "function"
    ELSE IF Len(args) = 2 THEN args[2]
    ELSE "null"

\* the argument parsing of set in the manager's and the preload's script:
\* extension-manager.js lines 251-256, part_005 lines 189-194
SetCallback(args) ==
    IF Len(args) = 1 /\ args[1] = "function" THEN "function"
    ELSE IF Len(args) >= 2 THEN args[2]
    ELSE "null"

\* the rest of get and set in the manager's script (extension-manager.js
\* lines 226-246 and 258-276) and in the preload (part_005 lines 165-185 and
\* 196-214), over the parsed callback
AfterParse(callback, bridge) ==
    IF bridge
    THEN IF callback # "null"
         THEN Outcome("undefined", Scheduled(callback))
         ELSE Outcome("promise", "none")
    ELSE Outcome("promise", Scheduled(callback))

\* get and set of the get-extension-api-script handler's script, main.js
\* lines 703-708 and 725-730: without window.electronAPI the call throws
AfterParseHandler(callback, bridge) ==
    IF ~bridge THEN Outcome("throws", "none")
    ELSE IF callback = "function" THEN Outcome("undefined", "invoked")
    ELSE Outcome("promise", "none")

Variants == {"manager", "handler", "preload"}

storageLocalGet(variant, args, bridge) ==
    IF variant = "handler" THEN AfterParseHandler(GetCallback(args), bridge)
    ELSE AfterParse(GetCallback(args), bridge)

\* main.js lines 711-724 parse the arguments of set as those of get
storageLocalSet(variant, args, bridge) ==
    IF variant = "handler" THEN AfterParseHandler(GetCallback(args), bridge)
    ELSE AfterParse(SetCallback(args), bridge)

StorageLocalGet(variant, args, bridge) ==
    /\ lastCall' = Call("storage.local.get", variant,
                        [args |-> args, bridge |-> bridge],
                        storageLocalGet(variant, args, bridge))
    /\ UNCHANGED mgrVars
    /\ UNCHANGED otherVars

StorageLocalSet(variant, args, bridge) ==
    /\ lastCall' = Call("storage.local.set", variant,
                        [args |-> args, bridge |-> bridge],
                        storageLocalSet(variant, args, bridge))
    /\ UNCHANGED mgrVars
    /\ UNCHANGED otherVars

(***************************************************************************)
(* The state after `new ExtensionManager()`, lines 6-25, and after the     *)
(* renderer's constructor, modules/ExtensionManager.js lines 4-8.          *)
(***************************************************************************)
NoReply == [kind |-> "none", path |-> <<>>, dir |-> <<>>]

Constructed ==
    /\ extensions = <<>>
    /\ loadedExtensions = {}
    /\ popupWindows = <<>>
    /\ extensionStores = {}
    /\ registeredProtocols = {}
    /\ protocolHandlers = <<>>
    /\ sessionExtensions = {}
    /\ storeFiles = <<>>
    /\ windows = <<>>
    /\ rExtensions = <<>>
    /\ viewCalls = <<>>
    /\ injectRun = [faults |-> {}, attempts |-> <<>>, aborted |-> FALSE]
    /\ storageReply = <<>>
    /\ fileReply = NoReply
    /\ written = <<>>
    /\ lastCall = Call("constructor", "", <<>>, "")

\* a first start: no configuration file yet
Init == Constructed /\ config = [exists |-> FALSE, extensions |-> <<>>]

\* the directories offered to loadExtension, and whether Electron's native
\* loader accepts them
LoadPaths == {"p1", "p2", "p3", "p4", "p5", "p6", "p7"}

NativeOutcomes(path) == IF path = "p1" THEN BOOLEAN ELSE {FALSE}

Next ==
    \/ \E path \in LoadPaths : LoadExtension(path, FALSE)
    \/ \E id \in StorageIds : UnloadExtension(id)
    \/ \E id \in StorageIds : ShowExtensionPopup(id, UrlE)
    \/ \E w \in 1..MaxWindows, ok \in BOOLEAN : LoadFinished(w, ok)
    \/ \E w \in 1..MaxWindows : PreloadHandshake(w)
    \/ \E w \in 1..MaxWindows : ResizeTimer(w, TRUE)
    \/ \E w \in 1..MaxWindows : WindowClosed(w)
    \/ GetStorage(<<"a", "b">>, NoKeys)

Spec == Init /\ [][Next]_vars

NextStorage ==
    \/ \E id \in StorageIds, keys \in GetArgs : GetStorage(id, keys)
    \/ \E id \in StorageIds, items \in ItemArgs : SetStorage(id, items)

SpecStorage == Init /\ [][NextStorage]_vars

LoadPathsOk == {"p1", "p2", "p3"}

NextInject ==
    \/ \E path \in LoadPathsOk, nativeOk \in BOOLEAN :
          nativeOk \in NativeOutcomes(path) /\ LoadExtension(path, nativeOk)
    \/ \E id \in StorageIds : UnloadExtension(id)
    \/ RLoadExtensions
    \/ \E url \in Urls : InjectRenderer(url)
    \/ \E url \in Urls : InjectMain(url)

SpecInject == Init /\ [][NextInject]_vars

NextFiles ==
    \/ \E path \in {"p1", "p3"} : LoadExtension(path, FALSE)
    \/ \E id \in Ids, rel \in RelPaths :
          ProtocolRequest(ExtensionScheme(id), rel)
    \/ \E id \in Ids, rel \in RelPaths : GetExtensionFileContent(id, rel)

SpecFiles == Init /\ [][NextFiles]_vars

\* injection into views that reject some calls, over extensions with
\* several blocks and with a block that has no matches list
FaultPaths == {"p1", "p3", "p9", "p10"}

FaultSets == {{}, {ApiScript}, {<<SegJ>>}, {<<SegF>>, <<SegJ>>}}

FaultUrls == {UrlE, UrlO}

NextFaults ==
    \/ \E path \in FaultPaths : RLoadExtension(path, FALSE)
    \/ \E url \in FaultUrls, faults \in FaultSets :
          InjectRendererWith(url, faults)
    \/ \E url \in FaultUrls, faults \in FaultSets :
          InjectMainWith(url, faults)

SpecFaults == Init /\ [][NextFaults]_vars

\* match patterns and URLs, with and without the scheme separator; "$" is a
\* character of URLs that new RegExp reads as an assertion, and a pattern
\* that ends in an unescaped backslash is no regular expression
Scheme == <<"a", ":", "/", "/">>

PatternInputs ==
    LET tails == SeqsUpTo({"a", "*", "?", ".", "$", "\\"}, MaxPattern)
    IN tails \cup {Scheme \o t : t \in tails}

UrlInputs ==
    LET tails == SeqsUpTo({"a", ".", "$"}, MaxUrl)
    IN tails \cup {Scheme \o t : t \in tails}

\* one evaluation, on a manager nothing else was asked of
TestPattern(url, pattern) ==
    /\ lastCall.op = "constructor"
    /\ lastCall' = Call("testPattern", "", [url |-> url, pattern |-> pattern],
                        testPattern(url, pattern))
    /\ UNCHANGED mgrVars
    /\ UNCHANGED otherVars

NextPatterns ==
    /\ lastCall.op = "constructor"
    /\ \E url \in UrlInputs, pattern \in PatternInputs :
          TestPattern(url, pattern)

SpecPatterns == Init /\ [][NextPatterns]_vars

\* calls of the synthesized storage API in a page
NextApi ==
    \/ \E variant \in Variants, args \in ArgLists, bridge \in BOOLEAN :
          StorageLocalGet(variant, args, bridge)
    \/ \E variant \in Variants, args \in ArgLists, bridge \in BOOLEAN :
          StorageLocalSet(variant, args, bridge)

SpecApi == Init /\ [][NextApi]_vars

\* main-process callers that write to the objects the manager returned
NextCallers ==
    \/ \E path \in LoadPathsOk : LoadExtension(path, FALSE)
    \/ \E id \in StorageIds : UnloadExtension(id)
    \/ \E id \in StorageIds, enabled \in BOOLEAN :
          CallerSetsEnabled(id, enabled)
    \/ \E url \in Urls : InjectMain(url)

SpecCallers == Init /\ [][NextCallers]_vars

\* a start over the configuration an earlier run saved; the directories may
\* have changed since: p4 lost its manifest, p8 is gone, p2 now carries the
\* name p1 has
RestorePaths == {"p1", "p2", "p3", "p4", "p8"}

SavedEntry(path) ==
    [id |-> generateExtensionId(Disk[path].name), name |-> Disk[path].name,
     version |-> Disk[path].version, path |-> path, enabled |-> TRUE]

SavedConfigs ==
    {[exists |-> FALSE, extensions |-> <<>>]}
       \cup {[exists |-> TRUE,
               extensions |-> [i \in 1..Len(paths) |-> SavedEntry(paths[i])]] :
                 paths \in SeqsUpTo(RestorePaths, MaxConfig)}

InitRestore == Constructed /\ config \in SavedConfigs

NextRestore ==
    \/ \E native \in SUBSET {"p1"} : InitializeFromConfig(native)
    \/ \E path \in RestorePaths : LoadExtension(path, FALSE)
    \/ \E id \in StorageIds : UnloadExtension(id)

SpecRestore == InitRestore /\ [][NextRestore]_vars

\* unloading and shutdown while Electron calls throw
NextTeardown ==
    \/ \E path \in {"p1", "p3"}, nativeOk \in BOOLEAN :
          LoadExtension(path, nativeOk)
    \/ \E id \in StorageIds : ShowExtensionPopup(id, UrlE)
    \/ \E w \in 1..MaxWindows : PreloadHandshake(w)
    \/ \E w \in 1..MaxWindows : LoadFinished(w, TRUE)
    \/ \E w \in 1..MaxWindows : WindowClosed(w)
    \/ \E id \in StorageIds :
          \E faults \in FaultsAmong(UnloadThrowers(Mgr, id)) :
             UnloadExtensionWith(id, faults)
    \/ \E faults \in FaultsAmong(CleanupThrowers(Mgr)) : Cleanup(faults)

SpecTeardown == Init /\ [][NextTeardown]_vars

\* The application is started again over the same user-data directory: a
\* new ExtensionManager (constructor, lines 6-25) with empty maps, while
\* extensions.json and the store files are what the last run left.
Restarted(S) ==
    [S EXCEPT !.extensions = <<>>, !.loadedExtensions = {},
              !.popupWindows = <<>>, !.extensionStores = {},
              !.registeredProtocols = {}, !.protocolHandlers = <<>>,
              !.sessionExtensions = {}, !.windows = <<>>]

Restart ==
    /\ lastCall.op # "constructor"
    /\ Becomes(Restarted(Mgr))
    /\ rExtensions' = <<>>
    /\ viewCalls' = <<>>
    /\ injectRun' = [faults |-> {}, attempts |-> <<>>, aborted |-> FALSE]
    /\ storageReply' = <<>>
    /\ fileReply' = NoReply
    /\ lastCall' = Call("constructor", "", <<>>, "")
    /\ UNCHANGED <<storeFiles, written>>

\* getStorage(id, key) through a handle that is not open: none was created
\* yet in this run, or unloadExtension dropped it (lines 684-686)
GetStorageReopening(id, key) ==
    /\ id \notin extensionStores
    /\ extensionStores' = extensionStores \cup {id}
    /\ storageReply' = getStorage(storeFiles, id, StringKey(key))
    /\ lastCall' = Call("getStorage", "reopened", id, key)
    /\ UNCHANGED <<extensions, loadedExtensions, popupWindows,
                   registeredProtocols, protocolHandlers, sessionExtensions,
                   config, windows>>
    /\ UNCHANGED <<storeFiles, rExtensions, viewCalls, injectRun, fileReply,
                   written>>

\* storage and the registry across unloads, reloads, shutdowns and restarts
NextPersist ==
    \/ \E path \in {"p1", "p3"} : LoadExtension(path, FALSE)
    \/ \E id \in StorageIds : UnloadExtension(id)
    \/ \E id \in StorageIds, v \in Values :
          SetStorage(id, [k \in {"k1"} |-> v])
    \/ \E id \in StorageIds, key \in {"k1", "k2"} :
          GetStorageReopening(id, key)
    \/ Cleanup({})
    \/ Restart
    \/ InitializeFromConfig({})

SpecPersist == Init /\ [][NextPersist]_vars

\* popup windows under a fair event loop: a load that was started settles,
\* the preload of a navigation runs, a timer that was armed fires, and a
\* window that was asked to close is closed.  Nothing makes a user close a
\* window.
CloseDelivered(w) ==
    /\ w \in 1..Len(windows)
    /\ windows[w].closing
    /\ WindowClosed(w)

NextPopups ==
    \/ LoadExtension("p1", FALSE)
    \/ ShowExtensionPopup(<<"a", "b">>, UrlE)
    \/ \E w \in 1..MaxWindows : PreloadHandshake(w)
    \/ \E w \in 1..MaxWindows, ok \in BOOLEAN : LoadFinished(w, ok)
    \/ \E w \in 1..MaxWindows, measured \in BOOLEAN : ResizeTimer(w, measured)
    \/ \E w \in 1..MaxWindows : WindowClosed(w)

FairPopups ==
    /\ WF_vars(\E w \in 1..MaxWindows : PreloadHandshake(w))
    /\ WF_vars(\E w \in 1..MaxWindows, ok \in BOOLEAN : LoadFinished(w, ok))
    /\ WF_vars(\E w \in 1..MaxWindows, measured \in BOOLEAN :
                  ResizeTimer(w, measured))
    /\ WF_vars(\E w \in 1..MaxWindows : CloseDelivered(w))

SpecPopupsFair == Init /\ [][NextPopups]_vars /\ FairPopups

(***************************************************************************)
(* Properties.                                                             *)
(***************************************************************************)
Alive(w) == ~windows[w].destroyed /\ ~windows[w].closing

AliveOf(id) == {w \in 1..Len(windows) : windows[w].ext = id /\ Alive(w)}

InFlight(id) ==
    \E w \in 1..Len(windows) :
        windows[w].ext = id /\ windows[w].phase = "loading"

\* C1: in every reachable state at most one popup window of an extension id
\* is alive (neither destroyed nor asked to close), and once no
\* showExtensionPopup call for the id is awaiting its load, an alive window
\* of the id is the one recorded in popupWindows.
C1_OnePopupPerId ==
    \A id \in Ids :
        /\ Cardinality(AliveOf(id)) <= 1
        /\ ~InFlight(id) =>
              \A w \in AliveOf(id) :
                  windows[w].phase = "returned" =>
                      id \in DOMAIN popupWindows /\ popupWindows[id] = w

\* C2: whenever the preload of a popup window has made its synchronous
\* init-data request, it was answered, with the extension and the current
\* URL of the showExtensionPopup call that created that window.
C2_InitDataOfOwnWindow ==
    \A w \in 1..Len(windows) :
        windows[w].handshake.done =>
            /\ windows[w].handshake.answered
            /\ windows[w].handshake.extension = windows[w].ext
            /\ windows[w].handshake.currentUrl = windows[w].url

\* what the claim calls a failing manifest, read off the disk
Unloadable(path) ==
    \/ ~Disk[path].hasManifest
    \/ ~Disk[path].parses
    \/ Disk[path].name = <<>>
    \/ Disk[path].version = <<>>

\* C3: a loadExtension of a directory whose manifest.json is missing, is not
\* parseable or lacks name or version throws, and extensions,
\* loadedExtensions, registeredProtocols, popupWindows, extensionStores and
\* the persisted configuration are the same after the call as before it.
C3_FailedLoadChangesNothing ==
    [][(lastCall'.op = "loadExtension" /\ Unloadable(lastCall'.path)) =>
         /\ lastCall'.result = "throw"
         /\ UNCHANGED <<extensions, loadedExtensions, registeredProtocols,
                        protocolHandlers, popupWindows, extensionStores,
                        sessionExtensions, config, storeFiles, windows>>]_vars

\* a manifest without version was refused while the extension of the same
\* id was loaded, had a popup open and a storage handle
C3_Witness ==
    /\ lastCall.op = "loadExtension"
    /\ lastCall.path = "p6"
    /\ lastCall.result = "throw"
    /\ ExtHas(extensions, lastCall.id)
    /\ lastCall.id \in DOMAIN popupWindows
    /\ lastCall.id \in extensionStores
    /\ config.exists

\* the entries the configuration file should hold for the extensions map
Persisted(ext) ==
    [id |-> ext.id, name |-> ext.name, version |-> ext.version,
     path |-> ext.path, enabled |-> ext.enabled]

\* C5: after every completed loadExtension or unloadExtension the ids in
\* the persisted configuration are the ids of the extensions map, and each
\* persisted entry has the name, version, path and enabled of the extension
\* in memory.
C5_ConfigMatchesRegistry ==
    lastCall.op \in {"loadExtension", "unloadExtension"} =>
        /\ {config.extensions[i].id : i \in 1..Len(config.extensions)}
              = ExtIds(extensions)
        /\ \A i \in 1..Len(config.extensions) :
              config.extensions[i]
                = Persisted(ExtGet(extensions, config.extensions[i].id))

\* an unload left one of two extensions, and the file holds that one
C5_Witness ==
    /\ lastCall.op = "unloadExtension"
    /\ lastCall.result = "ok"
    /\ Len(extensions) = 1
    /\ Len(config.extensions) = 1

\* the windows created for an extension id that are still there
WindowsOf(id) ==
    {w \in 1..Len(windows) : windows[w].ext = id /\ ~windows[w].destroyed}

\* C4: when loadExtension completes for a manifest whose id is the id of an
\* extension already loaded, the registry holds one entry under the id, with
\* the data of the new manifest, every popup window of the old extension
\* has been closed, its storage handle is gone, and its scheme is bound
\* once, to the new directory.
C4_ReloadReplaces ==
    [][(/\ lastCall'.op = "loadExtension"
        /\ lastCall'.result = "ok"
        /\ ExtHas(extensions, lastCall'.id)) =>
         /\ Cardinality({i \in 1..Len(extensions') :
                           extensions'[i].id = lastCall'.id}) = 1
         /\ Persisted(ExtGet(extensions', lastCall'.id))
              = [id |-> lastCall'.id, name |-> Disk[lastCall'.path].name,
                 version |-> Disk[lastCall'.path].version,
                 path |-> lastCall'.path, enabled |-> TRUE]
         /\ lastCall'.id \in loadedExtensions'
         /\ \A w \in WindowsOf(lastCall'.id) :
               windows'[w].closing \/ windows'[w].destroyed
         /\ lastCall'.id \notin DOMAIN popupWindows'
         /\ lastCall'.id \notin extensionStores'
         /\ ExtensionScheme(lastCall'.id) \in registeredProtocols'
         /\ ExtensionScheme(lastCall'.id) \in DOMAIN protocolHandlers'
         /\ protocolHandlers'[ExtensionScheme(lastCall'.id)]
              = lastCall'.path]_vars

\* C6: when unloadExtension completes for a loaded id, the id is in none of
\* extensions, loadedExtensions, popupWindows and extensionStores, its
\* scheme is not registered, every popup window it had has been closed and
\* the configuration file has been written without it; for an id that is
\* not loaded the call changes nothing.
C6_UnloadRemovesAll ==
    [][lastCall'.op = "unloadExtension" =>
         IF ExtHas(extensions, lastCall'.id)
         THEN /\ ~ExtHas(extensions', lastCall'.id)
              /\ lastCall'.id \notin loadedExtensions'
              /\ lastCall'.id \notin DOMAIN popupWindows'
              /\ lastCall'.id \notin extensionStores'
              /\ ExtensionScheme(lastCall'.id) \notin registeredProtocols'
              /\ ExtensionScheme(lastCall'.id) \notin DOMAIN protocolHandlers'
              /\ \A w \in WindowsOf(lastCall'.id) :
                    windows'[w].closing \/ windows'[w].destroyed
              /\ config'.exists
              /\ \A i \in 1..Len(config'.extensions) :
                    config'.extensions[i].id # lastCall'.id
         ELSE UNCHANGED <<extensions, loadedExtensions, popupWindows,
                          extensionStores, registeredProtocols,
                          protocolHandlers, sessionExtensions, config,
                          storeFiles, windows>>]_vars

\* the value last written under a key of an extension, null if none was
LastWritten(id, key) ==
    IF <<id, key>> \in DOMAIN written THEN written[<<id, key>>] ELSE "null"

\* C7: getStorage(id, key) returns {key: v}, v being the value of the last
\* setStorage that named the key, or null if none did; and setStorage
\* keeps every key of the store, changing only keys it was given.
C7_GetReturnsLastWritten ==
    [][/\ (lastCall'.op = "getStorage" /\ lastCall'.path = "string") =>
            storageReply' = [k \in {lastCall'.result} |->
                               LastWritten(lastCall'.id, k)]
       /\ lastCall'.op = "setStorage" =>
            \A k \in DOMAIN StoreOf(storeFiles, lastCall'.id) :
                /\ k \in DOMAIN StoreOf(storeFiles', lastCall'.id)
                /\ \/ StoreOf(storeFiles', lastCall'.id)[k]
                        = StoreOf(storeFiles, lastCall'.id)[k]
                   \/ StoreOf(storeFiles', lastCall'.id)[k]
                        = written'[<<lastCall'.id, k>>]]_vars

\* C8: for distinct extension ids A and B, setStorage(A, items) changes the
\* result of no getStorage(B, keys).
C8_StoresAreSeparate ==
    [][lastCall'.op = "setStorage" =>
         \A B \in StorageIds \ {lastCall'.id}, keys \in GetArgs :
             getStorage(storeFiles', B, keys)
               = getStorage(storeFiles, B, keys)]_vars

\* one extension wrote a key that the other holds with another value
C8_Witness ==
    /\ lastCall.op = "setStorage"
    /\ lastCall.id = <<"a", "b">>
    /\ "k1" \in DOMAIN StoreOf(storeFiles, <<"a", "b">>)
    /\ "k1" \in DOMAIN StoreOf(storeFiles, <<"c">>)
    /\ StoreOf(storeFiles, <<"a", "b">>)["k1"]
         # StoreOf(storeFiles, <<"c">>)["k1"]

\* C9: a resource request, through the custom scheme or through
\* get-extension-file-content, yields a file only if the file lies inside
\* the directory of the extension it was asked of.
C9_FilesOnlyFromInside ==
    fileReply.kind = "file" => IsSegPrefix(fileReply.dir, fileReply.path)

\* no content-script block of the listed extensions matches the URL
NoBlockMatches(exts, url) ==
    \A i \in 1..Len(exts) :
        \A j \in 1..Len(exts[i].content_scripts) :
            ~matchesUrl(url, exts[i].content_scripts[j].matches)

\* C10: injectContentScripts for a URL that matches no content-script
\* block of any loaded extension makes no insertCSS and no
\* executeJavaScript call on the view, in the renderer and in the main
\* process.
C10_NoMatchNoInjection ==
    /\ (lastCall.op = "injectRenderer"
          /\ NoBlockMatches(rExtensions, lastCall.id)) => viewCalls = <<>>
    /\ (lastCall.op = "injectMain"
          /\ NoBlockMatches(extensions, lastCall.id)) => viewCalls = <<>>

\* the renderer injected into a page that no block of its two extensions
\* matches, though both declare scripts
C10_Witness ==
    /\ lastCall.op = "injectRenderer"
    /\ Len(rExtensions) = 2
    /\ \A i \in 1..2 : rExtensions[i].content_scripts # <<>>
    /\ \A i \in 1..2 : ExtHas(extensions, rExtensions[i].id)
    /\ NoBlockMatches(rExtensions, lastCall.id)
    /\ viewCalls = <<>>

(***************************************************************************)
(* Failure containment of one injectContentScripts call.                   *)
(***************************************************************************)
Entries(id, files) ==
    [i \in 1..Len(files) |-> [ext |-> id, what |-> files[i]]]

\* the declared files of the blocks that apply to the URL, CSS before JS
RECURSIVE DeclaredOfBlocks(_, _, _)
DeclaredOfBlocks(id, blocks, url) ==
    IF blocks = <<>> THEN <<>>
    ELSE (IF matchesUrl(url, Head(blocks).matches)
          THEN Entries(id, Head(blocks).css) \o Entries(id, Head(blocks).js)
          ELSE <<>>)
         \o DeclaredOfBlocks(id, Tail(blocks), url)

RECURSIVE DeclaredOf(_, _)
DeclaredOf(exts, url) ==
    IF exts = <<>> THEN <<>>
    ELSE DeclaredOfBlocks(Head(exts).id, Head(exts).content_scripts, url)
         \o DeclaredOf(Tail(exts), url)

WellFormed(exts) ==
    \A i \in 1..Len(exts) :
        \A b \in 1..Len(exts[i].content_scripts) :
            exts[i].content_scripts[b].hasMatches

InjectedR == SelectSeq(rExtensions, LAMBDA e : e.enabled)

InjectedM ==
    SelectSeq(extensions, LAMBDA e : e.enabled /\ e.electronId = <<>>)

OnlyFileFailures(exts) ==
    ApiScript \notin injectRun.faults /\ WellFormed(exts)

\* C11: when the only failures of one injectContentScripts call are failures
\* of single CSS or JS files (unreadable, or the view rejects the call), every
\* declared file of every applying block of every injected extension is
\* attempted, in both the renderer's and the main process's pipeline.
C11_FileFailureDoesNotStop ==
    /\ (lastCall.op = "injectRenderer" /\ OnlyFileFailures(InjectedR))
          => injectRun.attempts = DeclaredOf(InjectedR, lastCall.id)
    /\ (lastCall.op = "injectMain" /\ OnlyFileFailures(InjectedM))
          => injectRun.attempts = DeclaredOf(InjectedM, lastCall.id)

\* a rejected call and an unreadable file, each followed by an attempt on a
\* file of a later extension
C11_Witness ==
    /\ lastCall.op = "injectRenderer"
    /\ OnlyFileFailures(InjectedR)
    /\ \E i, j, k \in 1..Len(injectRun.attempts) :
          /\ i < k /\ j < k
          /\ injectRun.attempts[i].what \in injectRun.faults
          /\ ViewCall("executeJavaScript", injectRun.attempts[i].ext,
                      injectRun.attempts[i].what) \in Range(viewCalls)
          /\ ContentOf(extensions, injectRun.attempts[j].ext,
                       injectRun.attempts[j].what) = "throws"
          /\ injectRun.attempts[k].ext # injectRun.attempts[i].ext
          /\ injectRun.attempts[k].ext # injectRun.attempts[j].ext

ByExt(entries, id) == SelectSeq(entries, LAMBDA a : a.ext = id)

CssOf(exts, url) ==
    DeclaredOf([i \in 1..Len(exts) |->
                  [exts[i] EXCEPT !.content_scripts =
                      [b \in 1..Len(@) |-> [@[b] EXCEPT !.js = <<>>]]]],
               url)

\* the extensions of the list all of whose blocks have a matches list
Sound(exts) == SelectSeq(exts, LAMBDA e : WellFormed(<<e>>))

AllOwed(exts, id) ==
    ByExt(injectRun.attempts, id)
       = ByExt(DeclaredOf(Sound(exts), lastCall.id), id)

CssOwed(exts, id) ==
    \A i \in 1..Len(ByExt(CssOf(Sound(exts), lastCall.id), id)) :
        ByExt(CssOf(Sound(exts), lastCall.id), id)[i]
           \in Range(injectRun.attempts)

\* the extensions whose API-script injection one run asks for
WithApi(exts) ==
    SelectSeq(Sound(exts),
              LAMBDA e : \E b \in 1..Len(e.content_scripts) :
                            /\ e.content_scripts[b].hasJs
                            /\ matchesUrl(lastCall.id,
                                          e.content_scripts[b].matches))

\* C12: whatever fails for one extension during one injectContentScripts (a
\* block without a matches list, a rejected API-script injection), every
\* other injected extension still has the files of its applying blocks
\* attempted; where the view rejects every API script, the CSS files of the
\* extensions after the first rejected one are still attempted.
C12_LaterExtensionsStillInjected ==
    /\ lastCall.op = "injectRenderer"
          => \A i \in 1..Len(Sound(InjectedR)) :
                AllOwed(InjectedR, Sound(InjectedR)[i].id)
    /\ (lastCall.op = "injectMain" /\ ApiScript \notin injectRun.faults)
          => \A i \in 1..Len(Sound(InjectedM)) :
                AllOwed(InjectedM, Sound(InjectedM)[i].id)
    /\ (lastCall.op = "injectMain" /\ ApiScript \in injectRun.faults)
          => \A i \in 1..Len(Sound(InjectedM)) :
                \/ WithApi(InjectedM) # <<>>
                   /\ Sound(InjectedM)[i].id = Head(WithApi(InjectedM)).id
                \/ CssOwed(InjectedM, Sound(InjectedM)[i].id)

(***************************************************************************)
(* Order of the calls one injectContentScripts makes on the view.          *)
(***************************************************************************)
IsCss(call) == call.method = "insertCSS"

IsApi(call) == call.method = "executeJavaScript" /\ call.what = ApiScript

IsJs(call) == call.method = "executeJavaScript" /\ call.what # ApiScript

\* the list that was injected, when no two of its entries share an id
InjectedOnce ==
    LET exts == IF lastCall.op = "injectRenderer" THEN InjectedR
                ELSE InjectedM
    IN IF \A i, j \in 1..Len(exts) : exts[i].id = exts[j].id => i = j
       THEN exts ELSE <<>>

PlaceOf(id) ==
    IF \E i \in 1..Len(InjectedOnce) : InjectedOnce[i].id = id
    THEN CHOOSE i \in 1..Len(InjectedOnce) : InjectedOnce[i].id = id
    ELSE 0

\* C13: in the calls of one injectContentScripts over extensions with
\* distinct ids, the calls of an earlier extension precede those of a later
\* one, and for each extension no CSS call follows its API-script or a JS
\* call and no API-script call follows one of its JS calls.
C13_CssThenApiThenJs ==
    (lastCall.op \in {"injectRenderer", "injectMain"} /\ InjectedOnce # <<>>)
       => \A i, j \in 1..Len(viewCalls) :
             i < j =>
               /\ PlaceOf(viewCalls[i].ext) <= PlaceOf(viewCalls[j].ext)
               /\ viewCalls[i].ext = viewCalls[j].ext
                     => /\ ~(IsCss(viewCalls[j]) /\ ~IsCss(viewCalls[i]))
                        /\ ~(IsApi(viewCalls[j]) /\ IsJs(viewCalls[i]))

(***************************************************************************)
(* Installation of the synthesized API surface in a page.                  *)
(***************************************************************************)
PageOfRun == PageAfter(viewCalls, lastCall.op = "injectMain", NoPage)

Rerun(page, id) ==
    IF lastCall.op = "injectMain" THEN ApiScriptRunM(page, id)
    ELSE ApiScriptRunR(page, id)

\* C14: after one injectContentScripts on a fresh page whose view rejects no
\* API script, over sound extensions with distinct ids, the API surface of
\* an extension was installed once if one of its applying blocks declares
\* JS and never otherwise, and executing its API script once more leaves
\* the page as it is.
C14_ApiInstalledOnce ==
    (/\ lastCall.op \in {"injectRenderer", "injectMain"}
     /\ ApiScript \notin injectRun.faults
     /\ WellFormed(InjectedOnce))
       => \A i \in 1..Len(InjectedOnce) :
             LET id == InjectedOnce[i].id IN
             /\ Len(ByExt([k \in 1..Len(PageOfRun.installs) |->
                             [ext |-> PageOfRun.installs[k]]], id))
                   = IF \E k \in 1..Len(WithApi(InjectedOnce)) :
                           WithApi(InjectedOnce)[k].id = id
                     THEN 1 ELSE 0
             /\ (\E k \in 1..Len(PageOfRun.installs) :
                     PageOfRun.installs[k] = id)
                   => Rerun(PageOfRun, id) = PageOfRun

(***************************************************************************)
(* Extensions the injection has to pass over.                              *)
(***************************************************************************)
Eligible(exts) ==
    SelectSeq(exts, LAMBDA e : e.enabled /\ e.electronId = <<>>)

\* C15: the calls one injectContentScripts makes on the view are those it
\* makes when the disabled extensions and the extensions with a native
\* handle (electronId) are left out of the list: such extensions cause no
\* CSS, API-script or JS injection.
C15_SkippedExtensionsGetNothing ==
    /\ lastCall.op = "injectRenderer"
          => viewCalls = InjectR(Eligible(rExtensions), extensions,
                                 lastCall.id, NoCalls).log
    /\ lastCall.op = "injectMain"
          => viewCalls = InjectM(Eligible(extensions), lastCall.id,
                                 NoCalls).log

(***************************************************************************)
(* Restoring the persisted configuration.                                  *)
(***************************************************************************)
Restored == lastCall.op = "initializeFromConfig"

ValidDir(path) ==
    Disk[path].dirExists /\ ManifestError(Disk[path]) = "none"

InRegistry(path) == \E k \in 1..Len(extensions) : extensions[k].path = path

\* C16 as stated: after initializeFromConfig every listed entry whose
\* directory exists and holds a valid manifest is in the registry.
C16_EveryValidEntryLoaded ==
    Restored => \A i \in 1..Len(lastCall.id) :
                   ValidDir(lastCall.id[i]) => InRegistry(lastCall.id[i])

\* C16, amended: after initializeFromConfig every listed entry whose directory
\* exists and holds a valid manifest is in the registry, unless a later
\* valid entry yields the same extension id; and nothing else is.
C16_ValidEntriesLoadedLastOfIdWins ==
    Restored =>
       /\ \A i \in 1..Len(lastCall.id) :
             ValidDir(lastCall.id[i]) =>
                \/ InRegistry(lastCall.id[i])
                \/ \E j \in (i + 1)..Len(lastCall.id) :
                      /\ ValidDir(lastCall.id[j])
                      /\ generateExtensionId(Disk[lastCall.id[j]].name)
                           = generateExtensionId(Disk[lastCall.id[i]].name)
       /\ \A k \in 1..Len(extensions) :
             \E i \in 1..Len(lastCall.id) :
                lastCall.id[i] = extensions[k].path /\ ValidDir(lastCall.id[i])

\* a restore that loaded an entry listed after a directory that is gone
C16_Witness ==
    /\ Restored
    /\ \E i, j \in 1..Len(lastCall.id) :
          /\ i < j
          /\ ~Disk[lastCall.id[i]].dirExists
          /\ ValidDir(lastCall.id[j])
          /\ InRegistry(lastCall.id[j])

(***************************************************************************)
(* showExtensionPopup without a popup to show.                             *)
(***************************************************************************)
NothingToShow(id) ==
    ~ExtHas(extensions, id) \/ ExtGet(extensions, id).popup = <<>>

\* C17: a showExtensionPopup for an id that is not registered, or whose
\* extension declares no popup, answers "no popup" and changes neither the
\* windows nor popupWindows nor anything else the manager holds.
C17_NoPopupNoEffect ==
    [][(lastCall'.op = "showExtensionPopup" /\ NothingToShow(lastCall'.id))
          => /\ lastCall'.result = "no popup"
             /\ windows' = windows
             /\ popupWindows' = popupWindows
             /\ UNCHANGED mgrVars]_vars

\* the call was refused for a registered extension without a popup while
\* the popup window of another extension is open and recorded
C17_Witness ==
    /\ lastCall.op = "showExtensionPopup"
    /\ lastCall.result = "no popup"
    /\ ExtHas(extensions, lastCall.id)
    /\ \E w \in 1..Len(windows) :
          /\ ~windows[w].destroyed
          /\ windows[w].ext # lastCall.id
          /\ \E k \in DOMAIN popupWindows : popupWindows[k] = w

(***************************************************************************)
(* What callers can do to the objects the manager returns.                 *)
(***************************************************************************)
\* C18: an assignment a caller makes to an extension object it got from
\* getExtension or getExtensions leaves the registry, and with it what a
\* later getExtension returns and injectContentScripts injects, as it was.
C18_ReturnedObjectsAreCopies ==
    [][lastCall'.op = "callerSetsEnabled"
          => /\ extensions' = extensions
             /\ \A url \in Urls :
                   InjectM(extensions', url, NoCalls).log
                      = InjectM(extensions, url, NoCalls).log]_vars

(***************************************************************************)
(* Callback mode and promise mode of the synthesized storage API.          *)
(***************************************************************************)
TrailingFunction(args) == args # <<>> /\ args[Len(args)] = "function"

\* C19: a storage.local.get or set with at most two arguments whose last
\* argument is a function invokes the callback and returns no promise; any
\* other such call returns a promise and invokes no callback; in every
\* variant of the script, with and without the host's storage bridge.
C19_CallbackOrPromise ==
    (/\ lastCall.op \in {"storage.local.get", "storage.local.set"}
     /\ Len(lastCall.id.args) <= 2)
       => lastCall.result =
             IF TrailingFunction(lastCall.id.args)
             THEN Outcome("undefined", "invoked")
             ELSE Outcome("promise", "none")

(***************************************************************************)
(* What a match pattern means: * stands for any string, ? for any single   *)
(* character, every other character for itself.                            *)
(***************************************************************************)
RECURSIVE WholeMatch(_, _)
WholeMatch(pattern, str) ==
    IF pattern = <<>> THEN str = <<>>
    ELSE IF Head(pattern) = "*"
         THEN \E k \in 0..Len(str) :
                 WholeMatch(Tail(pattern), SubSeq(str, k + 1, Len(str)))
    ELSE /\ str # <<>>
         /\ Head(pattern) = "?" \/ Head(pattern) = Head(str)
         /\ WholeMatch(Tail(pattern), Tail(str))

OccursIn(pattern, str) ==
    \E i \in 1..(Len(str) + 1) :
       \E j \in (i - 1)..Len(str) : WholeMatch(pattern, SubSeq(str, i, j))

HasScheme(pattern) == Includes(pattern, <<":", "/", "/">>)

ExampleUrl == <<"h", "t", "t", "p", "s", ":", "/", "/", "e", "x", "a", "m", "p", "l", "e", ".", "c", "o", "m", "/", "f", "o", "o">>

ExampleOther == <<"h", "t", "t", "p", "s", ":", "/", "/", "o", "t", "h", "e", "r", ".", "c", "o", "m", "/">>

ExamplePattern == <<"*", ":", "/", "/", "e", "x", "a", "m", "p", "l", "e", ".", "c", "o", "m", "/", "*">>

ExampleHost == <<"e", "x", "a", "m", "p", "l", "e", ".", "c", "o", "m">>

\* C20: a pattern with "://" matches a URL only if the whole URL matches it,
\* a pattern without "://" matches every URL in which it occurs, and the
\* three examples of the specification come out as stated.
C20_AnchoredOrSubstring ==
    /\ lastCall.op = "testPattern"
          => IF HasScheme(lastCall.id.pattern)
             THEN lastCall.result
                     => WholeMatch(lastCall.id.pattern, lastCall.id.url)
             ELSE OccursIn(lastCall.id.pattern, lastCall.id.url)
                     => lastCall.result
    /\ testPattern(ExampleUrl, ExamplePattern)
    /\ ~testPattern(ExampleOther, ExamplePattern)
    /\ testPattern(ExampleHost, ExampleHost)

(***************************************************************************)
(* Patterns that are no regular expression.                                *)
(***************************************************************************)
Malformed(pattern) == ~Compiles(RegexSource(pattern))

BadPattern == <<"a", "\\">>

\* C21: testPattern answers TRUE or FALSE for every pattern, FALSE for one
\* that does not compile, and matchesUrl over a list that holds a pattern
\* that does not compile is decided by the other patterns of the list.
C21_MalformedPatternIsFalse ==
    lastCall.op = "testPattern"
       => /\ lastCall.result \in BOOLEAN
          /\ Malformed(lastCall.id.pattern) => ~lastCall.result
          /\ Malformed(BadPattern)
          /\ matchesUrl(lastCall.id.url, <<BadPattern, lastCall.id.pattern>>)
                = lastCall.result
          /\ matchesUrl(lastCall.id.url, <<lastCall.id.pattern, BadPattern>>)
                = lastCall.result

\* a pattern that does not compile was tested against a URL
C21_Witness ==
    /\ lastCall.op = "testPattern"
    /\ Malformed(lastCall.id.pattern)
    /\ lastCall.id.url # <<>>
    /\ lastCall.result = FALSE

(***************************************************************************)
(* C22.  Teardown is best-effort.                                          *)
(***************************************************************************)
\* the extension `id` is gone from the manager and the file says so
Removed(id) ==
    /\ ~ExtHas(extensions, id)
    /\ id \notin loadedExtensions
    /\ id \notin DOMAIN popupWindows
    /\ id \notin extensionStores
    /\ config = ConfigOf(extensions)

\* C22: whichever of the Electron calls of a teardown throw (closing the
\* popup window, removing the native registration, unregistering the
\* scheme), an unloadExtension of a loaded extension leaves it out of the
\* registry, of the loaded ids, of the popup map and of the open stores,
\* with the configuration rewritten from the registry; and a cleanup() ends
\* with no popup tracked, no extension registered and the configuration
\* rewritten.
C22_TeardownIsBestEffort ==
    /\ lastCall.op = "unloadExtension" /\ lastCall.result.outcome = "ok"
          => Removed(lastCall.id)
    /\ lastCall.op = "cleanup"
          => /\ popupWindows = <<>>
             /\ extensions = <<>>
             /\ loadedExtensions = {}
             /\ lastCall.result.ids # {} => config = ConfigOf(<<>>)

\* a cleanup of two extensions, one with a tracked popup, in which two
\* calls threw
C22_Witness ==
    /\ lastCall.op = "cleanup"
    /\ Cardinality(lastCall.result.ids) = 2
    /\ lastCall.result.popups # {}
    /\ \E id \in lastCall.result.popups :
          <<id, "sweep">> \in lastCall.result.faults
    /\ \E id \in lastCall.result.ids :
          <<id, "unregister">> \in lastCall.result.faults
    /\ extensions = <<>>

(***************************************************************************)
(* C23.  No popup window stays alive and hidden.                           *)
(***************************************************************************)
Created(w) == w \in 1..Len(windows)

Revealed(w) == Created(w) /\ (windows[w].shown \/ windows[w].destroyed)

\* C23: under a fair event loop every popup window that showExtensionPopup
\* created is eventually shown or destroyed, whether its document loaded or
\* not and whether its content size could be measured or not.
C23_ShownOrDestroyed == \A w \in 1..MaxWindows : Created(w) ~> Revealed(w)

(***************************************************************************)
(* C24.  The registered schemes are those of the loaded extensions.        *)
(***************************************************************************)
SchemesOf(exts) == {ExtensionScheme(id) : id \in ExtIds(exts)}

C25_StorageSurvivesHandle ==
    lastCall.op = "getStorage" /\ lastCall.path = "reopened"
       => storageReply = [k \in {lastCall.result} |->
                            LastWritten(lastCall.id, lastCall.result)]

\* a value read back by a loaded extension whose handle had been dropped
C25_Witness ==
    /\ lastCall.op = "getStorage"
    /\ lastCall.path = "reopened"
    /\ ExtHas(extensions, lastCall.id)
    /\ storageReply = [k \in {"k1"} |-> "v2"]

(***************************************************************************)
(* C26.  A 'closed' event forgets only its own window.                     *)
(***************************************************************************)
\* window w is destroyed in this step
ClosedNow(w) ==
    /\ w \in 1..Len(windows)
    /\ w \in 1..Len(windows')
    /\ ~windows[w].destroyed
    /\ windows'[w].destroyed

\* C26: when a popup window is closed, the entry popupWindows holds for any
\* other window that is not destroyed stays as it is, so the 'closed' event
\* of a replaced or untracked window does not leave a newer live window of
\* the same extension untracked.
C26_ClosedForgetsOnlyOwnWindow ==
    [][\A w \in 1..MaxWindows : ClosedNow(w) =>
          \A id \in DOMAIN popupWindows :
             popupWindows[id] # w /\ ~windows[popupWindows[id]].destroyed
                => /\ id \in DOMAIN popupWindows'
                   /\ popupWindows'[id] = popupWindows[id]]_vars

(***************************************************************************)
(* C27.  A failed showExtensionPopup changes nothing.                      *)
(***************************************************************************)
\* the call returned {success: false} before it created a window
FailedBeforeWindow ==
    /\ lastCall'.op = "showExtensionPopup"
    /\ lastCall'.result \in {"no popup", "file not found"}

\* the call of window w returned {success: false} from its catch block
FailedLoading(w) ==
    /\ w \in 1..Len(windows)
    /\ w \in 1..Len(windows')
    /\ windows[w].phase = "loading"
    /\ windows'[w].phase = "failed"

\* C27: a showExtensionPopup that returns {success: false} leaves
\* popupWindows and the popup windows as they were (the popup recorded
\* before stays recorded and is not asked to close), and the window it
\* created, if any, is not left alive.
C27_FailedShowChangesNothing ==
    [][/\ FailedBeforeWindow
            => popupWindows' = popupWindows /\ windows' = windows
       /\ \A w \in 1..MaxWindows :
             FailedLoading(w)
                => /\ windows'[w].destroyed \/ windows'[w].closing
                   /\ popupWindows' = popupWindows]_vars

(***************************************************************************)
(* C28.  One extension behind the whole API surface.                       *)
(***************************************************************************)
\* C28: after one injectContentScripts executed the API scripts of its
\* extensions in a fresh page, chrome.runtime.id, chrome.runtime.getManifest,
\* getURL and the id behind chrome.storage.local all belong to the same
\* extension.
C28_ApiSurfaceOfOneExtension ==
    (/\ lastCall.op \in {"injectRenderer", "injectMain"}
     /\ PageOfRun.installs # <<>>)
       => /\ PageOfRun.getManifest = PageOfRun.runtimeId
          /\ PageOfRun.getURL = PageOfRun.runtimeId
          /\ PageOfRun.storageId = PageOfRun.runtimeId

(***************************************************************************)
(* C29.  The renderer's list has one entry per extension.                  *)
(***************************************************************************)
\* no file of an extension is handed to the view twice
EachFileOnce(calls) ==
    \A i, j \in 1..Len(calls) :
       (/\ calls[i].what # ApiScript
        /\ calls[i].ext = calls[j].ext
        /\ calls[i].method = calls[j].method
        /\ calls[i].what = calls[j].what) => i = j

\* C29: after a loadExtension() or loadExtensions() of the renderer its
\* list holds at most one entry per extension id, for the ids the main
\* registry holds, and an injectContentScripts over the list hands no CSS or
\* JS file of an extension to the view twice.
C29_RendererListOnePerId ==
    /\ lastCall.op \in {"rLoadExtension", "rLoadExtensions"}
          => /\ \A i, j \in 1..Len(rExtensions) :
                   rExtensions[i].id = rExtensions[j].id => i = j
             /\ ExtIds(rExtensions) = ExtIds(extensions)
    /\ lastCall.op = "injectRenderer" => EachFileOnce(viewCalls)

(***************************************************************************)
(* C30.  Shutdown keeps what a restart restores.                           *)
(***************************************************************************)
\* the ids the configuration file lists
Listed == {config.extensions[i].id : i \in 1..Len(config.extensions)}

\* the ids in the registry once the application was started again and
\* initializeFromConfig has run
RestoredAfterRestart ==
    ExtIds(initializeFromConfig(Restarted(Mgr), {}).extensions)

\* C30: after a cleanup() that ran with extensions loaded, the configuration
\* file lists those extensions, and a restart followed by
\* initializeFromConfig has them in the registry again (their directories
\* exist and their manifests are valid).
C30_CleanupKeepsRestoreState ==
    lastCall.op = "cleanup"
       => /\ Listed = lastCall.result.ids
          /\ RestoredAfterRestart = lastCall.result.ids

====
